---- MODULE Spec2Model ----
(***************************************************************************)
(* A model of the layout-and-render engine of ptroute:                     *)
(*   crates/ptroute-graph/src/layout.rs      layout_graph                  *)
(*   crates/ptroute-render/src/bvh.rs        Bvh, BvhNode, Aabb            *)
(*   crates/ptroute-render/src/geometry.rs   Sphere::hit                   *)
(*   crates/ptroute-render/src/integrator.rs render_scene(_progressive)    *)
(*                                                                         *)
(* Strings are sequences of bytes (Rust compares str bytewise), u64 values *)
(* are sequences of 8 bytes, least significant first, so that the wrapping *)
(* 64-bit arithmetic of the hash is computed exactly.  A HashMap is a      *)
(* function whose iteration order is an arbitrary permutation of its keys. *)
(***************************************************************************)
EXTENDS Integers, Sequences, FiniteSets, TLC

VARIABLES
    graph,        \* the GraphFile given to layout_graph
    layoutRuns,   \* one record per completed call of layout_graph
    spheres,      \* the Vec<Sphere> given to Bvh::new
    bvh,          \* the Bvh once built: <<>> before, <<b>> after
    query,        \* the last query of Bvh::hit: <<>> or <<[ray, t_min, t_max]>>
    hitResult,    \* what the last query returned: <<>> or <<hit>>
    scene,        \* the SceneFile given to the renderer
    settings,     \* the RenderSettings, but for threads
    surface,      \* per class of ray direction, the sphere met first (0: none)
    call,         \* the render call in progress or returned: <<>> or <<frame>>
    context,      \* its RenderContext: <<>> or <<[bvh, camera]>>
    accum,        \* its accumulation buffer, one entry per pixel
    pass,         \* the render_scene_accum in progress: <<>> or <<frame>>
    callbacks,    \* the calls of on_pass so far: [done, image]
    image,        \* the image render_scene returned: <<>> or <<image>>
    dims,         \* width, height and build of a render_scene call sized in u32
    frame,        \* that call: where it is, its buffer length, its image
    files,        \* the file system write_png sees: path -> content
    writer,       \* the write_png call in progress: <<>> or <<frame>>
    writes,       \* the write_png calls that returned: [image, ok]
    traceArgs,    \* the arguments of run_traces_with_runner
    workers,      \* its spawned threads, by target index
    semaphore,    \* the permits taken
    channel,      \* the messages sent and not yet received
    collector,    \* its main thread: where it is, results, what it returned
    traceFile,    \* the trace file build_graph is given
    nodeStats,    \* build_graph's node_stats map
    edgeStats,    \* build_graph's edge_stats map
    runsDone,     \* the runs of the trace file build_graph is through
    graphOut,     \* the graph build_graph returned: <<>> or <<graph>>
    renderArgs,   \* the arguments of run_render
    renderRun,    \* the run_render call: where it is, sums, write_error, result
    outImage,     \* what the output path of run_render holds
    runFlags,     \* --resume and --force of the run pipeline
    artifacts,    \* the artifacts in the output directory, by step
    pipeline,     \* the run_run call: where it is, what it executed
    child,        \* the traceroute child process of a stream
    pipe,         \* the lines in its stdout pipe, written and not yet read
    readers,      \* the threads of the stream
    events        \* the events sent on the stream's channel, in order

layoutVars == <<graph, layoutRuns>>
bvhVars == <<spheres, bvh, query, hitResult>>
renderVars == <<scene, settings, surface, call, context, accum, pass, callbacks, image>>
frameVars == <<dims, frame>>
fileVars == <<files, writer, writes>>
traceVars == <<traceArgs, workers, semaphore, channel, collector>>
buildVars == <<traceFile, nodeStats, edgeStats, runsDone, graphOut>>
runVars == <<renderArgs, renderRun, outImage>>
pipeVars == <<runFlags, artifacts, pipeline>>
streamVars == <<child, pipe, readers, events>>
earlierVars == <<layoutVars, bvhVars, renderVars, frameVars, fileVars, traceVars>>
laterVars == <<buildVars, runVars, pipeVars, streamVars>>
vars == <<earlierVars, laterVars>>

\* The parts of the state a specification does not exercise stay idle.
LayoutIdle == graph = [version |-> 1, nodes |-> <<>>, edges |-> <<>>] /\ layoutRuns = <<>>
BvhIdle == spheres = <<>> /\ bvh = <<>> /\ query = <<>> /\ hitResult = <<>>
RenderIdle ==
    /\ scene = [version |-> 1, nodes |-> <<>>, edges |-> <<>>]
    /\ settings = [width |-> 1, height |-> 1, spp |-> 1, bounces |-> 1,
                   seed |-> <<1, 0, 0, 0, 0, 0, 0, 0>>, progress_every |-> 0]
    /\ surface = <<>>
    /\ call = <<>>
    /\ context = <<>>
    /\ accum = <<>>
    /\ pass = <<>>
    /\ callbacks = <<>>
    /\ image = <<>>

FrameIdle == dims = <<>> /\ frame = <<>>
FileIdle == files = <<>> /\ writer = <<>> /\ writes = <<>>
TraceIdle ==
    /\ traceArgs = <<>>
    /\ workers = <<>>
    /\ semaphore = 0
    /\ channel = <<>>
    /\ collector = <<>>

BuildIdle ==
    /\ traceFile = <<>>
    /\ nodeStats = <<>>
    /\ edgeStats = <<>>
    /\ runsDone = 0
    /\ graphOut = <<>>
RunIdle == renderArgs = <<>> /\ renderRun = <<>> /\ outImage = <<>>
PipeIdle == runFlags = <<>> /\ artifacts = <<>> /\ pipeline = <<>>
StreamIdle == child = <<>> /\ pipe = <<>> /\ readers = <<>> /\ events = <<>>
LaterIdle == BuildIdle /\ RunIdle /\ PipeIdle /\ StreamIdle

-----------------------------------------------------------------------------
(* Bounds of the model.                                                    *)

MaxNodes == 2
MaxEdges == 3
MaxCalls == 2

-----------------------------------------------------------------------------
(* Generic helpers.                                                        *)

Min(a, b) == IF a <= b THEN a ELSE b
Max(a, b) == IF a >= b THEN a ELSE b

Range(s) == {s[i] : i \in DOMAIN s}

SeqsUpTo(S, n) == UNION {[1..k -> S] : k \in 0..n}

RECURSIVE SumSeq(_)
SumSeq(s) == IF s = <<>> THEN 0 ELSE Head(s) + SumSeq(Tail(s))

\* All orderings of the finite set S, as sequences without repetition.
RECURSIVE Orderings(_)
Orderings(S) ==
    IF S = {} THEN {<<>>}
    ELSE UNION {{<<x>> \o t : t \in Orderings(S \ {x})} : x \in S}

\* The elements of seq s that satisfy the membership in K, order kept.
RECURSIVE Restrict(_, _)
Restrict(s, K) ==
    IF s = <<>> THEN <<>>
    ELSE IF Head(s) \in K THEN <<Head(s)>> \o Restrict(Tail(s), K)
    ELSE Restrict(Tail(s), K)

-----------------------------------------------------------------------------
(* Strings: str comparison is lexicographic on bytes.                      *)

StrLt(a, b) ==
    \E i \in 1..Len(b) :
        /\ i - 1 <= Len(a)
        /\ \A j \in 1..(i - 1) : a[j] = b[j]
        /\ (Len(a) = i - 1 \/ a[i] < b[i])

StrLe(a, b) == a = b \/ StrLt(a, b)

\* Vec<&str>::sort(): ascending, by insertion.
RECURSIVE InsertStr(_, _)
InsertStr(s, x) ==
    IF s = <<>> THEN <<x>>
    ELSE IF StrLt(x, Head(s)) THEN <<x>> \o s
    ELSE <<Head(s)>> \o InsertStr(Tail(s), x)

RECURSIVE SortStrs(_)
SortStrs(s) ==
    IF s = <<>> THEN <<>>
    ELSE InsertStr(SortStrs(SubSeq(s, 1, Len(s) - 1)), s[Len(s)])

-----------------------------------------------------------------------------
(* u64 arithmetic, on 8 bytes least significant first, and the f64/f32     *)
(* conversions of jitter, on bits most significant first.                  *)

RECURSIVE XorByte(_, _)
XorByte(a, b) ==
    IF a = 0 THEN b
    ELSE IF b = 0 THEN a
    ELSE 2 * XorByte(a \div 2, b \div 2) + (((a % 2) + (b % 2)) % 2)

U64(n) ==
    <<n % 256, (n \div 256) % 256, (n \div 65536) % 256,
      (n \div 16777216) % 256, 0, 0, 0, 0>>

XorU64(a, b) == [i \in 1..8 |-> XorByte(a[i], b[i])]

\* hash ^= u64::from(byte)
XorLow(h, byte) == [h EXCEPT ![1] = XorByte(h[1], byte)]

\* Column k (1..8) of the schoolbook product, before carries.
MulColumn(a, b, k) == SumSeq([i \in 1..k |-> a[i] * b[k + 1 - i]])

RECURSIVE MulCarry(_, _, _, _)
MulCarry(a, b, k, carry) ==
    IF k > 8 THEN <<>>
    ELSE LET t == MulColumn(a, b, k) + carry
         IN  <<t % 256>> \o MulCarry(a, b, k + 1, t \div 256)

\* u64::wrapping_mul: the product modulo 2^64.
WrappingMul(a, b) == MulCarry(a, b, 1, 0)

FnvOffset == <<37, 35, 34, 132, 228, 156, 242, 203>>   \* 0xcbf29ce484222325
FnvPrime  == <<179, 1, 0, 0, 0, 1, 0, 0>>              \* 0x100000001b3

RECURSIVE FnvFold(_, _)
FnvFold(hash, bytes) ==
    IF bytes = <<>> THEN hash
    ELSE FnvFold(WrappingMul(XorLow(hash, Head(bytes)), FnvPrime), Tail(bytes))

\* The mix without the seed.
JitterHashUnseeded(seed, id) == FnvFold(FnvOffset, id)

\* The 64-bit mix of (seed, id bytes) at the head of jitter.
JitterHash(seed, id) == FnvFold(XorU64(FnvOffset, seed), id)

ByteBits(x) == [i \in 1..8 |-> (x \div (2 ^ (8 - i))) % 2]

\* 65 bits, most significant first, the first one 0: room for a rounding carry.
BitsOfU64(h) ==
    <<0>> \o ByteBits(h[8]) \o ByteBits(h[7]) \o ByteBits(h[6]) \o ByteBits(h[5])
          \o ByteBits(h[4]) \o ByteBits(h[3]) \o ByteBits(h[2]) \o ByteBits(h[1])

Zeros(n) == [i \in 1..n |-> 0]

RECURSIVE IncBits(_)
IncBits(b) ==
    IF b = <<>> THEN <<>>
    ELSE IF b[Len(b)] = 0 THEN [b EXCEPT ![Len(b)] = 1]
    ELSE IncBits(SubSeq(b, 1, Len(b) - 1)) \o <<0>>

RECURSIVE BitsVal(_)
BitsVal(b) ==
    IF b = <<>> THEN 0 ELSE 2 * BitsVal(SubSeq(b, 1, Len(b) - 1)) + b[Len(b)]

\* Round to k significant bits, ties to even: what `as f64` (k = 53) and
\* `as f32` (k = 24) do to a value that needs more bits.
RoundSig(b, k) ==
    IF \A i \in DOMAIN b : b[i] = 0 THEN b
    ELSE LET p    == CHOOSE i \in DOMAIN b : b[i] = 1 /\ \A j \in 1..(i - 1) : b[j] = 0
             last == p + k - 1
         IN  IF last >= Len(b) THEN b
             ELSE LET keep  == SubSeq(b, 1, last)
                      rest  == SubSeq(b, last + 1, Len(b))
                      tail0 == \A j \in 2..Len(rest) : rest[j] = 0
                      up    == rest[1] = 1 /\ (~tail0 \/ keep[last] = 1)
                  IN  (IF up THEN IncBits(keep) ELSE keep) \o Zeros(Len(rest))

\* 2^63 - n for a 65-bit n < 2^63: the magnitude of 2u - 1 when it is negative.
NegBelowHalf(b) ==
    IF \A i \in DOMAIN b : b[i] = 0 THEN <<0, 1>> \o Zeros(63)
    ELSE <<0, 0>> \o IncBits([i \in 1..63 |-> 1 - b[i + 2]])

\* jitter(seed, id), as an integer count of 2^-24: the f32
\*   ((hash as f64 / u64::MAX as f64) as f32) * 2.0 - 1.0
\* u64::MAX as f64 is 2^64, so the division only moves the exponent.
jitter(seed, id) ==
    LET n == RoundSig(RoundSig(BitsOfU64(JitterHash(seed, id)), 53), 24)
    IN  IF n[1] = 1 \/ n[2] = 1
        THEN BitsVal(SubSeq(n, 1, 26)) - 16777216
        ELSE - BitsVal(SubSeq(RoundSig(NegBelowHalf(n), 24), 1, 26))

-----------------------------------------------------------------------------
(* layout_graph (crates/ptroute-graph/src/layout.rs).                      *)
(*                                                                         *)
(* A position is <<x, y, z>>: x (the depth) and y (the lane) in whole      *)
(* units, z in units of 2^-25, which holds jitter * 0.5 exactly.           *)

IdA  == <<97>>        \* "a"
IdAB == <<97, 98>>    \* "ab"
IdB  == <<98>>        \* "b"
Ids  == {IdA, IdAB, IdB}

\* Two seeds that differ in one bit, bit 24.
Seed1 == U64(1)
Seed2 == U64(16777217)     \* 1 + 2^24
Seeds == {Seed1, Seed2}

\* Node values: every id, and a second value of "a" so that a node list can
\* hold one id twice with different counts.
NodeVals ==
    {[id |-> IdA,  seen |-> 10, loss_probes |-> 0],
     [id |-> IdAB, seen |-> 5,  loss_probes |-> 1],
     [id |-> IdB,  seen |-> 7,  loss_probes |-> 2],
     [id |-> IdA,  seen |-> 5,  loss_probes |-> 1]}

EdgeAttrs == {[seen |-> 8, rtt_delta_ms_avg |-> 2]}

EdgeVals ==
    {[from |-> f, to |-> t, seen |-> a.seen, rtt_delta_ms_avg |-> a.rtt_delta_ms_avg] :
        f \in Ids, t \in Ids, a \in EdgeAttrs}

Graphs ==
    {[version |-> 1, nodes |-> n, edges |-> e] :
        n \in SeqsUpTo(NodeVals, MaxNodes), e \in SeqsUpTo(EdgeVals, MaxEdges)}

NodeIds(g) == {g.nodes[i].id : i \in DOMAIN g.nodes}

\* indegree: a key per node id and per edge target, counting the edges into it.
indegree(g) ==
    [id \in NodeIds(g) \cup {g.edges[i].to : i \in DOMAIN g.edges} |->
        Cardinality({i \in DOMAIN g.edges : g.edges[i].to = id})]

\* outdegree: a key per node id and per edge source.
outdegree(g) ==
    [id \in NodeIds(g) \cup {g.edges[i].from : i \in DOMAIN g.edges} |->
        Cardinality({i \in DOMAIN g.edges : g.edges[i].from = id})]

RECURSIVE TargetsOf(_, _)
TargetsOf(edges, id) ==
    IF edges = <<>> THEN <<>>
    ELSE IF Head(edges).from = id THEN <<Head(edges).to>> \o TargetsOf(Tail(edges), id)
    ELSE TargetsOf(Tail(edges), id)

\* adjacency: per edge source, its targets in edge order, then sorted.
adjacency(g) ==
    [id \in {g.edges[i].from : i \in DOMAIN g.edges} |-> SortStrs(TargetsOf(g.edges, id))]

MinOf(S) == CHOOSE m \in S : \A x \in S : m <= x
MaxOf(S) == CHOOSE m \in S : \A x \in S : m >= x

\* indegree.values().min().copied().unwrap_or(0)
\* A fallback that looks for degree zero again.
min_in_is_zero(indeg) == 0

\* let min_in = indegree.values().min().copied().unwrap_or(0)
min_in(indeg) ==
    IF DOMAIN indeg = {} THEN 0 ELSE MinOf({indeg[id] : id \in DOMAIN indeg})

\* The keys the filter_map over indegree.iter() keeps: those of degree 0 and,
\* if there is none, those of the minimum degree.
start_candidates(indeg) ==
    LET zero == {id \in DOMAIN indeg : indeg[id] = 0}
    IN  IF zero = {} THEN {id \in DOMAIN indeg : indeg[id] = min_in(indeg)} ELSE zero

\* starts as a bug would build it: only the first candidate the map yields
\* (.find() in place of .filter_map().collect()).
starts_first_found(indeg, iter) ==
    SubSeq(Restrict(iter, start_candidates(indeg)), 1, 1)

\* starts: the candidates collected in the order `iter` in which the map
\* yields them, then sorted.
starts(indeg, iter) == SortStrs(Restrict(iter, start_candidates(indeg)))

\* queue.pop_front()
PopQueue(queue) == [node |-> Head(queue), rest |-> Tail(queue)]

\* The inner for loop without its contains_key guard on the insert: a later
\* visit overwrites the depth of an id already reached.
RECURSIVE VisitNeighborsOverwrite(_, _, _, _)
VisitNeighborsOverwrite(depth, queue, neighbors, next_depth) ==
    IF neighbors = <<>> THEN [depth |-> depth, queue |-> queue]
    ELSE IF Head(neighbors) \in DOMAIN depth
         THEN VisitNeighborsOverwrite([depth EXCEPT ![Head(neighbors)] = next_depth],
                                      queue, Tail(neighbors), next_depth)
         ELSE VisitNeighborsOverwrite(depth @@ (Head(neighbors) :> next_depth),
                                      Append(queue, Head(neighbors)),
                                      Tail(neighbors), next_depth)

\* The inner for loop: each neighbour not yet in depth gets next_depth and is queued.
RECURSIVE VisitNeighbors(_, _, _, _)
VisitNeighbors(depth, queue, neighbors, next_depth) ==
    IF neighbors = <<>> THEN [depth |-> depth, queue |-> queue]
    ELSE IF Head(neighbors) \in DOMAIN depth
         THEN VisitNeighbors(depth, queue, Tail(neighbors), next_depth)
         ELSE VisitNeighbors(depth @@ (Head(neighbors) :> next_depth),
                             Append(queue, Head(neighbors)),
                             Tail(neighbors), next_depth)

\* while let Some(node) = queue.pop_front() { ... }
RECURSIVE Traverse(_, _, _)
Traverse(depth, queue, adj) ==
    IF queue = <<>> THEN depth
    ELSE LET p == PopQueue(queue)
             next_depth == (IF p.node \in DOMAIN depth THEN depth[p.node] ELSE 0) + 1
             neighbors == IF p.node \in DOMAIN adj THEN adj[p.node] ELSE <<>>
             v == VisitNeighbors(depth, p.rest, neighbors, next_depth)
         IN  Traverse(v.depth, v.queue, adj)

\* depth after the traversal: every start id at 0 and queued, then the loop.
depthOf(startSeq, adj) ==
    Traverse([id \in Range(startSeq) |-> 0], startSeq, adj)

\* The fallback without its + 1: the depth of the deepest id reached.
fallback_depth_is_max(depth) ==
    IF DOMAIN depth = {} THEN 0 ELSE MaxOf({depth[id] : id \in DOMAIN depth})

\* depth.values().copied().max().unwrap_or(0) + 1
fallback_depth(depth) ==
    (IF DOMAIN depth = {} THEN 0 ELSE MaxOf({depth[id] : id \in DOMAIN depth})) + 1

RECURSIVE FloorLog2(_)
FloorLog2(d) == IF d <= 1 THEN 0 ELSE 1 + FloorLog2(d \div 2)

degree_bucket(degree) == IF degree = 0 THEN 0 ELSE Max(FloorLog2(degree), 0)

lane_spacing == 2

\* jitter over the seeds and ids of the model, computed once.
JitterTable == [s \in Seeds, i \in Ids |-> jitter(s, i)]

\* The hash jitter starts from, over the same seeds and ids.
JitterHashTable == [s \in Seeds, i \in Ids |-> JitterHash(s, i)]

\* nodes_sorted: sort_by id, stable.
RECURSIVE InsertNode(_, _)
InsertNode(s, n) ==
    IF s = <<>> THEN <<n>>
    ELSE IF StrLt(n.id, Head(s).id) THEN <<n>> \o s
    ELSE <<Head(s)>> \o InsertNode(Tail(s), n)

RECURSIVE nodes_sorted(_)
nodes_sorted(nodes) ==
    IF nodes = <<>> THEN <<>>
    ELSE InsertNode(nodes_sorted(SubSeq(nodes, 1, Len(nodes) - 1)), nodes[Len(nodes)])

GetOr(map, key, default) == IF key \in DOMAIN map THEN map[key] ELSE default

\* position with the jitter put into the lane coordinate.
NodePositionJitterInY(node, indeg, outdeg, depth, seed) ==
    LET degree == GetOr(indeg, node.id, 0) + GetOr(outdeg, node.id, 0)
    IN  <<GetOr(depth, node.id, fallback_depth(depth)),
          JitterTable[seed, node.id],
          degree_bucket(degree) * lane_spacing>>

\* position: [x, y, z]
NodePosition(node, indeg, outdeg, depth, seed) ==
    LET degree == GetOr(indeg, node.id, 0) + GetOr(outdeg, node.id, 0)
    IN  <<GetOr(depth, node.id, fallback_depth(depth)),
          degree_bucket(degree) * lane_spacing,
          JitterTable[seed, node.id]>>

\* A scene node that takes each count from the other field.
SceneNodeCountsSwapped(node, indeg, outdeg, depth, seed) ==
    [id |-> node.id,
     position |-> NodePosition(node, indeg, outdeg, depth, seed),
     seen |-> node.loss_probes,
     loss_probes |-> node.seen]

\* SceneNode { id, position, seen, loss_probes }
SceneNodeOf(node, indeg, outdeg, depth, seed) ==
    [id |-> node.id,
     position |-> NodePosition(node, indeg, outdeg, depth, seed),
     seen |-> node.seen,
     loss_probes |-> node.loss_probes]

\* A scene edge with its endpoints exchanged.
SceneEdgeReversed(edge) ==
    [from |-> edge.to, to |-> edge.from, seen |-> edge.seen,
     rtt_delta_ms_avg |-> edge.rtt_delta_ms_avg]

SceneEdgeOf(edge) ==
    [from |-> edge.from, to |-> edge.to, seen |-> edge.seen,
     rtt_delta_ms_avg |-> edge.rtt_delta_ms_avg]

\* What the early return for a graph without nodes gives.
EmptyScene == [version |-> 1, nodes |-> <<>>, edges |-> <<>>]

\* One call of layout_graph(graph, seed) in which the indegree map iterates
\* its keys in the order `iter`: the scene, and the maps it was made from.
layout_graph(g, seed, iter) ==
    IF g.nodes = <<>>
    THEN [seed |-> seed, iter |-> iter, indegree |-> <<>>, starts |-> <<>>,
          depth |-> <<>>, scene |-> EmptyScene]
    ELSE LET indeg  == indegree(g)
             outdeg == outdegree(g)
             st     == starts(indeg, iter)
             depth  == depthOf(st, adjacency(g))
             sorted == nodes_sorted(g.nodes)
         IN  [seed |-> seed, iter |-> iter, indegree |-> indeg, starts |-> st,
              depth |-> depth,
              scene |->
                [version |-> 1,
                 nodes |-> [i \in DOMAIN sorted |->
                              SceneNodeOf(sorted[i], indeg, outdeg, depth, seed)],
                 edges |-> [i \in DOMAIN g.edges |-> SceneEdgeOf(g.edges[i])]]]

\* The orders in which indegree.iter() can yield the start candidates (a
\* graph without nodes returns before any map exists).
IterOrders(g) ==
    IF g.nodes = <<>> THEN {<<>>} ELSE Orderings(start_candidates(indegree(g)))

InitLayout ==
    /\ graph \in Graphs
    /\ layoutRuns = <<>>
    /\ BvhIdle
    /\ RenderIdle
    /\ FrameIdle
    /\ FileIdle
    /\ TraceIdle
    /\ LaterIdle

\* A caller runs layout_graph on the graph with some seed; the hash map
\* iterates in some order of its keys.
LayoutGraph ==
    /\ Len(layoutRuns) < MaxCalls
    /\ \E seed \in Seeds, iter \in IterOrders(graph) :
          layoutRuns' = Append(layoutRuns, layout_graph(graph, seed, iter))
    /\ UNCHANGED <<graph, bvhVars, renderVars, frameVars, fileVars, traceVars, laterVars>>

NextLayout == LayoutGraph

SpecLayout == InitLayout /\ [][NextLayout]_vars

-----------------------------------------------------------------------------
(* Geometry (crates/ptroute-render/src/math.rs, geometry.rs, bvh.rs).      *)
(*                                                                         *)
(* Coordinates, radii and ray parameters t are integers (a fixed-point     *)
(* grid); a Vec3 is <<x, y, z>>.  Rays are axis-parallel with a unit       *)
(* direction, for which every f32 operation of the slab test and of the    *)
(* sphere test is exact on the grid, except sqrt, which rounds down to it. *)
(* An Option is a sequence: <<>> is None, <<v>> is Some(v).  Vec indices   *)
(* keep their 0-based values.                                              *)

Infinity == 1000000     \* f32::INFINITY: only compared with, never computed on
LEAF_SIZE == 4

VAdd(a, b) == <<a[1] + b[1], a[2] + b[2], a[3] + b[3]>>
VSub(a, b) == <<a[1] - b[1], a[2] - b[2], a[3] - b[3]>>
VScale(a, k) == <<a[1] * k, a[2] * k, a[3] * k>>
VDot(a, b) == a[1] * b[1] + a[2] * b[2] + a[3] * b[3]
VMin(a, b) == <<Min(a[1], b[1]), Min(a[2], b[2]), Min(a[3], b[3])>>
VMax(a, b) == <<Max(a[1], b[1]), Max(a[2], b[2]), Max(a[3], b[3])>>

\* f32::sqrt on the grid: the largest integer whose square is at most n.
RECURSIVE ISqrt(_)
ISqrt(n) ==
    IF n < 2 THEN n
    ELSE LET r == 2 * ISqrt(n \div 4)
         IN  IF (r + 1) * (r + 1) <= n THEN r + 1 ELSE r

\* Ray::at
RayAt(ray, t) == VAdd(ray.origin, VScale(ray.direction, t))

\* Sphere::hit: the near root if it lies in [t_min, t_max], else the far root
\* if that does.  The normal is kept times the radius (point - center).
SphereHit(sphere, ray, t_min, t_max) ==
    LET oc     == VSub(ray.origin, sphere.center)
        a      == VDot(ray.direction, ray.direction)
        half_b == VDot(oc, ray.direction)
        c      == VDot(oc, oc) - sphere.radius * sphere.radius
        discriminant == half_b * half_b - a * c
    IN  IF discriminant < 0 THEN <<>>
        ELSE LET sqrt_d == ISqrt(discriminant)
                 near   == (-half_b - sqrt_d) \div a
                 far    == (-half_b + sqrt_d) \div a
                 HitAt(root) ==
                     <<[t |-> root,
                        point |-> RayAt(ray, root),
                        normal |-> VSub(RayAt(ray, root), sphere.center),
                        albedo |-> sphere.albedo,
                        emission |-> sphere.emission]>>
             IN  IF ~(near < t_min \/ near > t_max) THEN HitAt(near)
                 ELSE IF ~(far < t_min \/ far > t_max) THEN HitAt(far)
                 ELSE <<>>

AabbEmpty ==
    [min |-> <<Infinity, Infinity, Infinity>>,
     max |-> <<-Infinity, -Infinity, -Infinity>>]

AabbFromSphere(sphere) ==
    LET r == <<sphere.radius, sphere.radius, sphere.radius>>
    IN  [min |-> VSub(sphere.center, r), max |-> VAdd(sphere.center, r)]

AabbUnion(a, b) == [min |-> VMin(a.min, b.min), max |-> VMax(a.max, b.max)]

AabbExtent(box) == VSub(box.max, box.min)

\* hit_axis: whether the slab is hit, and the narrowed t_min and t_max.
hit_axis(min, max, origin, direction, t_min, t_max) ==
    IF direction = 0
    THEN [ok |-> origin >= min /\ origin <= max, t_min |-> t_min, t_max |-> t_max]
    ELSE LET inv_d == direction      \* 1.0 / direction, for direction 1 or -1
             a  == (min - origin) * inv_d
             b  == (max - origin) * inv_d
             t0 == IF inv_d < 0 THEN b ELSE a
             t1 == IF inv_d < 0 THEN a ELSE b
             lo == Max(t0, t_min)
             hi == Min(t1, t_max)
         IN  [ok |-> hi > lo, t_min |-> lo, t_max |-> hi]

\* Aabb::hit: the three slabs in turn, each on the bounds the last one left.
AabbHit(box, ray, t_min, t_max) ==
    LET hx == hit_axis(box.min[1], box.max[1], ray.origin[1], ray.direction[1],
                       t_min, t_max)
        hy == hit_axis(box.min[2], box.max[2], ray.origin[2], ray.direction[2],
                       hx.t_min, hx.t_max)
        hz == hit_axis(box.min[3], box.max[3], ray.origin[3], ray.direction[3],
                       hy.t_min, hy.t_max)
    IN  hx.ok /\ hy.ok /\ hz.ok

RECURSIVE BoxOfIndices(_, _)
BoxOfIndices(indices, sphs) ==
    IF indices = <<>> THEN AabbEmpty
    ELSE AabbUnion(BoxOfIndices(SubSeq(indices, 1, Len(indices) - 1), sphs),
                   AabbFromSphere(sphs[indices[Len(indices)] + 1]))

\* The axis of the largest extent: 0, 1 or 2 (a position of a Vec3 is axis + 1).
SplitAxis(extent) ==
    IF extent[1] >= extent[2] /\ extent[1] >= extent[3] THEN 0
    ELSE IF extent[2] >= extent[3] THEN 1
    ELSE 2

sphere_center_axis(sphere, axis) == sphere.center[axis + 1]

\* indices.sort_by(center on axis): stable.
RECURSIVE InsertIndex(_, _, _, _)
InsertIndex(s, idx, sphs, axis) ==
    IF s = <<>> THEN <<idx>>
    ELSE IF sphere_center_axis(sphs[idx + 1], axis)
              < sphere_center_axis(sphs[Head(s) + 1], axis)
         THEN <<idx>> \o s
         ELSE <<Head(s)>> \o InsertIndex(Tail(s), idx, sphs, axis)

RECURSIVE SortIndices(_, _, _)
SortIndices(indices, sphs, axis) ==
    IF indices = <<>> THEN <<>>
    ELSE InsertIndex(SortIndices(SubSeq(indices, 1, Len(indices) - 1), sphs, axis),
                     indices[Len(indices)], sphs, axis)

\* indices.len() / 2
SplitPointUp(n) == (n + 1) \div 2

SplitPoint(n) == n \div 2

\* A leaf test that lets one primitive more into a leaf.
LeafWithOneMore(n) == n <= LEAF_SIZE + 1

\* if indices.len() <= LEAF_SIZE
IsLeafSize(n) == n <= LEAF_SIZE

\* BvhNode::build: the node, and the slice of indices as the build leaves it.
RECURSIVE BvhNodeBuild(_, _, _)
BvhNodeBuild(indices, sphs, offset) ==
    IF IsLeafSize(Len(indices))
    THEN [node |-> [bbox |-> BoxOfIndices(indices, sphs), left |-> <<>>, right |-> <<>>,
                    start |-> offset, end |-> offset + Len(indices)],
          indices |-> indices]
    ELSE LET axis   == SplitAxis(AabbExtent(BoxOfIndices(indices, sphs)))
             sorted == SortIndices(indices, sphs, axis)
             mid    == SplitPoint(Len(indices))
             l == BvhNodeBuild(SubSeq(sorted, 1, mid), sphs, offset)
             r == BvhNodeBuild(SubSeq(sorted, mid + 1, Len(sorted)), sphs, offset + mid)
         IN  [node |-> [bbox |-> AabbUnion(l.node.bbox, r.node.bbox),
                        left |-> <<l.node>>, right |-> <<r.node>>,
                        start |-> 0, end |-> 0],
              indices |-> l.indices \o r.indices]

\* The loop of a leaf: every sphere of the range, within the closest t so far.
RECURSIVE LeafScan(_, _, _, _, _, _)
LeafScan(range, sphs, ray, t_min, closest_t, closest) ==
    IF range = <<>> THEN closest
    ELSE LET h == SphereHit(sphs[Head(range) + 1], ray, t_min, closest_t)
         IN  IF h # <<>>
             THEN LeafScan(Tail(range), sphs, ray, t_min, h[1].t, h)
             ELSE LeafScan(Tail(range), sphs, ray, t_min, closest_t, closest)

\* BvhNode::hit
RECURSIVE BvhNodeHit(_, _, _, _, _, _)
BvhNodeHit(node, ray, t_min, t_max, sphs, indices) ==
    IF ~AabbHit(node.bbox, ray, t_min, t_max) THEN <<>>
    ELSE IF node.left = <<>> /\ node.right = <<>>
    THEN LeafScan(SubSeq(indices, node.start + 1, node.end), sphs, ray,
                  t_min, t_max, <<>>)
    ELSE LET hit_left ==
                 IF node.left # <<>>
                 THEN BvhNodeHit(node.left[1], ray, t_min, t_max, sphs, indices)
                 ELSE <<>>
             closest_t == IF hit_left # <<>> THEN hit_left[1].t ELSE t_max
             hit_right ==
                 IF node.right # <<>>
                 THEN BvhNodeHit(node.right[1], ray, t_min, closest_t, sphs, indices)
                 ELSE <<>>
         IN  IF hit_right # <<>> THEN hit_right ELSE hit_left

\* Bvh::new
BvhNew(sphs) ==
    LET indices == [i \in 1..Len(sphs) |-> i - 1]
    IN  IF indices = <<>>
        THEN [spheres |-> sphs, indices |-> indices,
              root |-> [bbox |-> AabbEmpty, left |-> <<>>, right |-> <<>>,
                        start |-> 0, end |-> 0]]
        ELSE LET b == BvhNodeBuild(indices, sphs, 0)
             IN  [spheres |-> sphs, indices |-> b.indices, root |-> b.node]

\* Bvh::hit
BvhHit(b, ray, t_min, t_max) ==
    IF b.indices = <<>> THEN <<>>
    ELSE BvhNodeHit(b.root, ray, t_min, t_max, b.spheres, b.indices)

\* brute_hit of tests/bvh_tests.rs, with the bounds as parameters: the
\* exhaustive scan over all spheres.
RECURSIVE BruteScan(_, _, _, _, _)
BruteScan(sphs, ray, t_min, closest_t, closest) ==
    IF sphs = <<>> THEN closest
    ELSE LET h == SphereHit(Head(sphs), ray, t_min, closest_t)
         IN  IF h # <<>>
             THEN BruteScan(Tail(sphs), ray, t_min, h[1].t, h)
             ELSE BruteScan(Tail(sphs), ray, t_min, closest_t, closest)

brute_hit(ray, sphs, t_min, t_max) == BruteScan(sphs, ray, t_min, t_max, <<>>)

\* Sphere sets: runs of consecutive spheres of a pool, taken cyclically.
MaxSpheres == 9
Grid == 2
MaxTMin == 1
MaxTMax == 3

SpherePool ==
    <<[center |-> <<0, 0, 0>>,    radius |-> 1, albedo |-> 1, emission |-> 0],
      [center |-> <<3, 0, 0>>,    radius |-> 1, albedo |-> 2, emission |-> 0],
      [center |-> <<-3, 1, 0>>,   radius |-> 2, albedo |-> 3, emission |-> 0],
      [center |-> <<0, 3, 1>>,    radius |-> 1, albedo |-> 4, emission |-> 0],
      [center |-> <<1, -2, 0>>,   radius |-> 1, albedo |-> 5, emission |-> 0],
      [center |-> <<0, 0, 3>>,    radius |-> 2, albedo |-> 6, emission |-> 0],
      [center |-> <<-2, -2, -2>>, radius |-> 1, albedo |-> 7, emission |-> 0],
      [center |-> <<2, 2, -3>>,   radius |-> 1, albedo |-> 8, emission |-> 0]>>

SphereRun(first, n) ==
    [i \in 1..n |-> SpherePool[((first + i - 2) % Len(SpherePool)) + 1]]

SphereSets == {SphereRun(first, n) : first \in 1..Len(SpherePool), n \in 0..MaxSpheres}

AxisDirections ==
    {<<1, 0, 0>>, <<-1, 0, 0>>, <<0, 1, 0>>, <<0, -1, 0>>, <<0, 0, 1>>, <<0, 0, -1>>}

Rays ==
    {[origin |-> <<x, y, z>>, direction |-> d] :
        x \in -Grid..Grid, y \in -Grid..Grid, z \in -Grid..Grid, d \in AxisDirections}

TMins == 0..MaxTMin
TMaxs == (1..MaxTMax) \cup {Infinity}

InitBvh ==
    /\ spheres \in SphereSets
    /\ bvh = <<>>
    /\ query = <<>>
    /\ hitResult = <<>>
    /\ LayoutIdle
    /\ RenderIdle
    /\ FrameIdle
    /\ FileIdle
    /\ TraceIdle
    /\ LaterIdle

\* Bvh::new(spheres)
BuildBvh ==
    /\ bvh = <<>>
    /\ bvh' = <<BvhNew(spheres)>>
    /\ UNCHANGED <<spheres, query, hitResult, layoutVars, renderVars, frameVars, fileVars, traceVars, laterVars>>

\* bvh.hit(&ray, t_min, t_max).  Bvh::hit takes &self and changes nothing, so
\* a behaviour asks one query of the BVH it built; the behaviours together ask
\* every query.
QueryBvh ==
    /\ bvh # <<>>
    /\ query = <<>>
    /\ \E ray \in Rays, t_min \in TMins, t_max \in TMaxs :
          /\ query' = <<[ray |-> ray, t_min |-> t_min, t_max |-> t_max]>>
          /\ hitResult' = BvhHit(bvh[1], ray, t_min, t_max)
    /\ UNCHANGED <<spheres, bvh, layoutVars, renderVars, frameVars, fileVars, traceVars, laterVars>>

NextBvh == BuildBvh \/ QueryBvh

SpecBvh == InitBvh /\ [][NextBvh]_vars

-----------------------------------------------------------------------------
(* Per-sample random numbers (crates/ptroute-render/src/integrator.rs).    *)

RECURSIVE AddCarry(_, _, _, _)
AddCarry(a, b, k, carry) ==
    IF k > 8 THEN <<>>
    ELSE LET t == a[k] + b[k] + carry
         IN  <<t % 256>> \o AddCarry(a, b, k + 1, t \div 256)

\* u64::wrapping_add: the sum modulo 2^64.
WrappingAdd(a, b) == AddCarry(a, b, 1, 0)

RECURSIVE Pow2(_)
Pow2(n) == IF n = 0 THEN 1 ELSE 2 * Pow2(n - 1)

\* v >> n on a u64, 0 < n < 64.
ShiftRight(v, n) ==
    LET q == n \div 8
        r == n % 8
        Limb(i) == IF i <= 8 THEN v[i] ELSE 0
    IN  [i \in 1..8 |->
            (Limb(i + q) \div Pow2(r)) + (Limb(i + q + 1) % Pow2(r)) * Pow2(8 - r)]

\* v << (8 * q) on a u64.
ShiftLeftBytes(v, q) == [i \in 1..8 |-> IF i > q THEN v[i - q] ELSE 0]

GoldenGamma == <<21, 124, 74, 127, 185, 121, 55, 158>>   \* 0x9e3779b97f4a7c15
MixA == <<185, 229, 228, 28, 109, 71, 88, 191>>          \* 0xbf58476d1ce4e5b9
MixB == <<235, 17, 49, 19, 187, 73, 208, 148>>           \* 0x94d049bb133111eb
LcgMultiplier == <<45, 127, 149, 76, 45, 244, 81, 88>>   \* 6364136223846793005
ZeroSeedState == <<190, 186, 254, 202, 239, 190, 173, 222>>  \* 0xdeadbeefcafebabe

\* hash_seed: x, y and sample are u32.
hash_seed(seed, x, y, sample) ==
    LET v0 == XorU64(XorU64(XorU64(seed, ShiftLeftBytes(U64(x), 4)),
                            ShiftLeftBytes(U64(y), 2)),
                     U64(sample))
        v1 == WrappingAdd(v0, GoldenGamma)
        v2 == WrappingMul(XorU64(v1, ShiftRight(v1, 30)), MixA)
        v3 == WrappingMul(XorU64(v2, ShiftRight(v2, 27)), MixB)
    IN  XorU64(v3, ShiftRight(v3, 31))

\* The state Rng::new starts from.
RngStart(seed) == IF seed = U64(0) THEN ZeroSeedState ELSE seed

\* The state after Rng::next_u32.
RngAdvance(state) == WrappingAdd(WrappingMul(state, LcgMultiplier), U64(1))

\* Rng::next_f32 on the advanced state, in units of 2^-24: the high 32 bits
\* of the state over 2^32, rounded to nearest with ties to even.  (Below 0.5
\* an f32 keeps bits finer than 2^-24; they are rounded away here.)
next_f32(state) ==
    LET top == state[8] * 65536 + state[7] * 256 + state[6]
        low == state[5]
    IN  IF low > 128 \/ (low = 128 /\ top % 2 = 1) THEN top + 1 ELSE top

-----------------------------------------------------------------------------
(* Scene construction for rendering (integrator.rs, build_spheres and      *)
(* build_camera).  Lengths are in thousandths of a world unit and colours  *)
(* in thousandths, so that 0.15 is 150 and t_min = 0.001 is 1; a division  *)
(* rounds down to the grid.                                                *)

NaN == 2000001     \* f32 NaN: never equal to a number, kept through arithmetic
NaNVec == <<NaN, NaN, NaN>>

\* (n as f32).ln() in thousandths, for n in 1..8.
LnMilli == <<0, 693, 1099, 1386, 1609, 1792, 1946, 2079>>

node_radius(seen) == 150 + (LnMilli[Max(seen, 1)] * 50) \div 1000

link_radius(seen) == 40 + (LnMilli[Max(seen, 1)] * 10) \div 1000

\* rtt_delta is a whole number of milliseconds here.
link_intensity(seen, rtt_delta) ==
    LET freq == LnMilli[Max(seen, 1)] + 1000
        abs  == IF rtt_delta < 0 THEN -rtt_delta ELSE rtt_delta
    IN  (3 * freq * 50) \div (50 + abs)

\* format!("{}->{}", from, to)
LinkColorId(from, to) == from \o <<45, 62>> \o to

\* The colour of an id from the hash of its bytes.
ColorOfHash(hash) ==
    LET Channel(byte) == 200 + (800 * byte) \div 255
    IN  <<Channel(hash[1]), Channel(hash[2]), Channel(hash[3])>>

\* The colours of the ids of the model and of the links between them,
\* computed once.
ColorTable ==
    [id \in Ids \cup {LinkColorId(from, to) : from \in Ids, to \in Ids} |->
        ColorOfHash(FnvFold(FnvOffset, id))] @@ <<>>

color_from_id(id) ==
    IF id \in DOMAIN ColorTable THEN ColorTable[id]
    ELSE ColorOfHash(FnvFold(FnvOffset, id))

VLength(a) == ISqrt(VDot(a, a))

CeilDiv(a, b) == (a + b - 1) \div b

\* positions.get(id) with every missing id at the origin.
positions_get_or_origin(nodes, id) ==
    IF \E i \in DOMAIN nodes : nodes[i].id = id
    THEN LET last == CHOOSE i \in DOMAIN nodes :
                        /\ nodes[i].id = id
                        /\ \A j \in DOMAIN nodes : nodes[j].id = id => j <= i
         IN  <<nodes[last].position>>
    ELSE <<<<0, 0, 0>>>>

\* positions.get(id) after the node loop: the position of the last node with
\* this id (a later insert replaces an earlier one), or None.
positions_get(nodes, id) ==
    IF \E i \in DOMAIN nodes : nodes[i].id = id
    THEN LET last == CHOOSE i \in DOMAIN nodes :
                        /\ nodes[i].id = id
                        /\ \A j \in DOMAIN nodes : nodes[j].id = id => j <= i
         IN  <<nodes[last].position>>
    ELSE <<>>

NodeSphere(node) ==
    [center |-> node.position,
     radius |-> node_radius(node.seen),
     albedo |-> color_from_id(node.id),
     emission |-> <<0, 0, 0>>]

\* distance <= 0.0001: between grid points, a distance of 0.
NearZero == 0

\* The spheres along one resolved edge.
LinkChain(edge, from, to) ==
    LET delta    == VSub(to, from)
        distance == VLength(delta)
        radius   == link_radius(edge.seen)
        spacing  == Max(radius * 3, 50)
        steps    == Max(CeilDiv(distance, spacing), 2)
        base_color == color_from_id(LinkColorId(edge.from, edge.to))
        intensity  == link_intensity(edge.seen, edge.rtt_delta_ms_avg)
        emission == <<(base_color[1] * intensity) \div 1000,
                      (base_color[2] * intensity) \div 1000,
                      (base_color[3] * intensity) \div 1000>>
    IN  IF distance <= NearZero THEN <<>>
        ELSE [i \in 1..(steps - 1) |->
                [center |-> VAdd(from, <<(delta[1] * i) \div steps,
                                         (delta[2] * i) \div steps,
                                         (delta[3] * i) \div steps>>),
                 radius |-> radius,
                 albedo |-> <<80, 80, 80>>,
                 emission |-> emission]]

\* One turn of the edge loop: nothing when an endpoint does not resolve.
EdgeSpheres(nodes, edge) ==
    LET from == positions_get(nodes, edge.from)
        to   == positions_get(nodes, edge.to)
    IN  IF from = <<>> THEN <<>>
        ELSE IF to = <<>> THEN <<>>
        ELSE LinkChain(edge, from[1], to[1])

RECURSIVE AllEdgeSpheres(_, _)
AllEdgeSpheres(nodes, edges) ==
    IF edges = <<>> THEN <<>>
    ELSE EdgeSpheres(nodes, Head(edges)) \o AllEdgeSpheres(nodes, Tail(edges))

build_spheres(sc) ==
    [i \in DOMAIN sc.nodes |-> NodeSphere(sc.nodes[i])]
        \o AllEdgeSpheres(sc.nodes, sc.edges)

\* The fold of build_camera over the node positions.
RECURSIVE BoundsOfNodes(_)
BoundsOfNodes(nodes) ==
    IF nodes = <<>> THEN AabbEmpty
    ELSE LET rest == BoundsOfNodes(SubSeq(nodes, 1, Len(nodes) - 1))
             pos  == nodes[Len(nodes)].position
         IN  [min |-> VMin(rest.min, pos), max |-> VMax(rest.max, pos)]

\* build_camera and Camera::new.  Without nodes min + max is inf + (-inf),
\* so the centre, and with it every field of the camera, is NaN.  Of a camera
\* the model keeps the origin, the point looked at and the aspect ratio.
build_camera(sc, st) ==
    IF sc.nodes = <<>>
    THEN [origin |-> NaNVec, look_at |-> NaNVec, aspect |-> <<st.width, st.height>>]
    ELSE LET b        == BoundsOfNodes(sc.nodes)
             sum      == VAdd(b.min, b.max)
             center   == <<sum[1] \div 2, sum[2] \div 2, sum[3] \div 2>>
             extent   == Max(VLength(VSub(b.max, b.min)), 1000)
             distance == (extent * 16) \div 10
         IN  [origin |-> VAdd(center, <<distance, (distance * 6) \div 10, distance>>),
              look_at |-> center,
              aspect |-> <<st.width, st.height>>]

\* RenderContext::new
RenderContextNew(sc, st) ==
    [bvh |-> BvhNew(build_spheres(sc)), camera |-> build_camera(sc, st)]

-----------------------------------------------------------------------------
(* The generators of the samples of the model, computed once: hash_seed    *)
(* for every (seed, x, y, sample) a render of the model can ask for, and   *)
(* the first states of the generator started from each.                    *)

RenderWidth == 2
RenderHeight == 2
MaxSpp == 2
MaxDraws == 48

SeedArgs ==
    {<<seed, x, y, sample>> :
        seed \in {Seed1}, x \in 0..(RenderWidth - 1), y \in 0..RenderHeight,
        sample \in 0..MaxSpp}

HashSeedTable ==
    [k \in SeedArgs |-> hash_seed(k[1], k[2], k[3], k[4])] @@ <<>>

\* The states of a generator after 1, 2, ... n draws.
RECURSIVE RngStates(_, _)
RngStates(state, n) ==
    IF n = 0 THEN <<>>
    ELSE LET next == RngAdvance(state)
         IN  <<next>> \o RngStates(next, n - 1)

RngTable ==
    [start \in {RngStart(HashSeedTable[k]) : k \in SeedArgs} |->
        RngStates(start, MaxDraws)] @@ <<>>

\* Rng::new: a generator is the state it started from and the number of
\* draws made since.
RngNew(seed) == [start |-> RngStart(seed), pos |-> 0]

\* The generator after n more draws.
RngSkip(rng, n) == [start |-> rng.start, pos |-> rng.pos + n]

\* Rng::next_f32: the value of the n-th next draw of the generator.
RngDraw(rng, n) == next_f32(RngTable[rng.start][rng.pos + n])

-----------------------------------------------------------------------------
(* Path tracing (integrator.rs, trace and render_scene_accum).             *)
(*                                                                         *)
(* The direction of a ray is kept up to a class of directions; which       *)
(* sphere, if any, a ray of each class meets first is the variable         *)
(* surface, fixed through a behaviour and arbitrary.  (The traversal that  *)
(* finds the nearest sphere is modelled in full by BvhHit, under SpecBvh.) *)
(* A colour is not summed to a number: it is the sequence of the terms     *)
(* added, in the order added, so that sums keep their grouping.            *)

NumRayClasses == 2

\* Camera::ray(u, v), with u * width and v * height in units of 2^-24 pixel:
\* the class of the half-pixel cell the ray goes through.
CameraRay(camera, u, v) ==
    [origin |-> camera.origin,
     direction |-> IF camera.origin = NaNVec THEN NaN
                   ELSE ((u \div Pow2(23)) + (v \div Pow2(23))) % NumRayClasses]

\* rng.next_f32() * 2.0 - 1.0 for each state of each stream of states, in
\* units of 2^-12.
ComponentsOf(streams) ==
    [start \in DOMAIN streams |->
        [n \in DOMAIN streams[start] |->
            (2 * next_f32(streams[start][n]) - Pow2(24)) \div Pow2(12)]]

ComponentTable == ComponentsOf(RngTable) @@ <<>>

\* p.dot(p) < 1.0
InBall(p) == VDot(p, p) < Pow2(24)

\* The point made of draws n + 1, n + 2 and n + 3 of the generator that
\* started from start.
PointAt(start, n) == SubSeq(ComponentTable[start], n + 1, n + 3)

\* The round of random_unit_vector's loop that returns, for the generator
\* started from start after pos draws: the first whose point lies in the
\* unit ball.
FirstInBall(start, pos) ==
    CHOOSE round \in 0..((MaxDraws - pos) \div 3 - 1) :
        /\ InBall(PointAt(start, pos + 3 * round))
        /\ \A earlier \in 0..(round - 1) : ~InBall(PointAt(start, pos + 3 * earlier))

\* What random_unit_vector returns from a loop that ends in the given round:
\* the point, and the number of draws made.
UnitVectorOfRound(start, pos, round) ==
    [value |-> PointAt(start, pos + 3 * round), draws |-> 3 * (round + 1)]

\* The unit vectors of the generators of the model, computed once, for the
\* positions in the first half of the draws kept.
UnitVectorTable ==
    [start \in DOMAIN ComponentTable |->
        [pos \in 0..(MaxDraws \div 2) |->
            UnitVectorOfRound(start, pos, FirstInBall(start, pos))]] @@ <<>>

\* The generator after the draws of a unit vector, with the vector.
AfterUnitVector(rng, found) ==
    [value |-> found.value, rng |-> RngSkip(rng, found.draws)]

\* random_unit_vector(rng): the vector, and the generator after the draws.
random_unit_vector(rng) ==
    AfterUnitVector(rng, UnitVectorTable[rng.start][rng.pos])

\* The class of directions a vector stands for: by the number of its
\* components that are not negative.
DirectionClass(value) ==
    Cardinality({i \in 1..3 : value[i] >= 0}) % NumRayClasses

\* The direction random_in_hemisphere makes of the unit vector drawn.
HemisphereOf(dir) == [direction |-> DirectionClass(dir.value), rng |-> dir.rng]

\* random_in_hemisphere: the class of the direction drawn, and the generator
\* after the draws.
random_in_hemisphere(rng) == HemisphereOf(random_unit_vector(rng))

\* bvh.hit(&current_ray, 0.001, f32::INFINITY) as trace sees it: None from an
\* empty BVH, else the sphere that surface gives for the ray's direction.
NearestSurface(b, ray) ==
    IF b.indices = <<>> THEN <<>>
    ELSE IF ray.direction = NaN THEN <<>>
    ELSE IF surface[ray.direction] = 0 THEN <<>>
    ELSE LET sphere == b.spheres[surface[ray.direction]]
         IN  <<[point |-> sphere.center,
                albedo |-> sphere.albedo,
                emission |-> sphere.emission]>>

\* The loop of trace: budget segments are left, color holds the terms so far.
RECURSIVE TraceLoop(_, _, _, _, _, _)
TraceLoop(current_ray, b, budget, rng, throughput, color) ==
    IF budget = 0 THEN color
    ELSE LET hit == NearestSurface(b, current_ray)
         IN  IF hit # <<>>
             THEN LET bounce == random_in_hemisphere(rng)
                  IN  TraceLoop([origin |-> hit[1].point,
                                 direction |-> bounce.direction],
                                b, budget - 1, bounce.rng,
                                Append(throughput, hit[1].albedo),
                                Append(color, [kind |-> "emission",
                                               throughput |-> throughput,
                                               emission |-> hit[1].emission,
                                               ray |-> current_ray]))
             ELSE Append(color, [kind |-> "background",
                                 throughput |-> throughput,
                                 emission |-> <<0, 0, 0>>,
                                 ray |-> current_ray])

\* A path that takes one segment more than its budget.
traceOneMore(ray, b, bounces, rng) == TraceLoop(ray, b, bounces + 1, rng, <<>>, <<>>)

\* trace(ray, bvh, bounces, rng)
trace(ray, b, bounces, rng) == TraceLoop(ray, b, bounces, rng, <<>>, <<>>)

-----------------------------------------------------------------------------
(* Rendering (integrator.rs: render_scene, render_scene_progressive,       *)
(* render_scene_accum).  The rows of a pass are tasks of a pool of workers *)
(* that take them in any order; a worker renders the pixels of its row     *)
(* from left to right and then counts the row as done.                     *)

MaxBounces == 2
MaxThreads == 2
MaxProgressEvery == 1
DefaultThreads == 2     \* the size of rayon's global pool

SceneNodeAt(id, position, seen) ==
    [id |-> id, position |-> position, seen |-> seen, loss_probes |-> 0]

SceneLink(from, to, seen) ==
    [from |-> from, to |-> to, seen |-> seen, rtt_delta_ms_avg |-> 2]

\* One node.
SceneOne ==
    [version |-> 1, nodes |-> <<SceneNodeAt(IdA, <<300, 0, 0>>, 1)>>, edges |-> <<>>]

\* Two nodes and the link between them, with edges from and to an id that is
\* no node, and a self-loop.
SceneDangling ==
    [version |-> 1,
     nodes |-> <<SceneNodeAt(IdA, <<300, 0, 0>>, 1), SceneNodeAt(IdB, <<300, 300, 0>>, 3)>>,
     edges |-> <<SceneLink(IdA, IdAB, 1), SceneLink(IdA, IdB, 8),
                 SceneLink(IdAB, IdB, 1), SceneLink(IdA, IdA, 1)>>]

Scenes == {EmptyScene, SceneOne, SceneDangling}

RenderSettingsSet ==
    [width : {RenderWidth}, height : {RenderHeight}, spp : 0..MaxSpp,
     bounces : 0..MaxBounces, seed : {Seed1}, progress_every : 0..MaxProgressEvery]

\* with_thread_pool: the workers that run the rows.
Workers(threads) == IF threads = 0 THEN DefaultThreads ELSE threads

\* (settings.width * settings.height) as usize
PixelCount(st) == st.width * st.height

\* The seed of a sample's generator, with the count of finished rows in the
\* place of the row.
PixelSeedFromCounter(st, x, y, sample_index) ==
    HashSeedTable[<<st.seed, x, IF pass = <<>> THEN 0 ELSE pass[1].counter, sample_index>>]

\* hash_seed(settings.seed, x, y, sample_index)
PixelSeed(st, x, y, sample_index) == HashSeedTable[<<st.seed, x, y, sample_index>>]

\* The index of a sample, taken within its pass.
SampleIndexInPass(sample_offset, sample) == sample

\* let sample_index = sample_offset + sample
SampleIndex(sample_offset, sample) == sample_offset + sample

\* The budget of trace as the settings give it.
BounceBudgetUnclamped(st) == st.bounces

\* let bounces = settings.bounces.max(1)
BounceBudget(st) == Max(st.bounces, 1)

\* One turn of the sample loop: the radiance of one sample of pixel (x, y).
SampleRadiance(ctx, st, x, y, sample_index, bounces) ==
    LET rng0 == RngNew(PixelSeed(st, x, y, sample_index))
        u    == x * Pow2(24) + RngDraw(rng0, 1)
        v    == y * Pow2(24) + RngDraw(rng0, 2)
        ray  == CameraRay(ctx.camera, u, st.height * Pow2(24) - v)
    IN  trace(ray, ctx.bvh, bounces, RngSkip(rng0, 2))

\* The sample loop of one pixel: color, from zero, plus each sample in turn.
PixelColor(ctx, st, x, y, sample_offset, spp, bounces) ==
    [k \in 1..spp |->
        [sample |-> SampleIndex(sample_offset, k - 1),
         radiance |-> SampleRadiance(ctx, st, x, y,
                                     SampleIndex(sample_offset, k - 1), bounces)]]

\* image_from_accum: per pixel, the sum and the count it is divided by.
image_from_accum(acc, width, height, samples) ==
    [idx \in 1..(width * height) |-> [sum |-> acc[idx], samples |-> Max(samples, 1)]]

\* The frame of render_scene_accum when it starts.
NewPass(sample_offset, samples) ==
    [sample_offset |-> sample_offset,
     samples |-> samples,
     spp |-> Max(samples, 1),
     bounces |-> BounceBudget(settings),
     counter |-> 0,
     order |-> <<>>,
     rows |-> [y \in 0..(settings.height - 1) |-> [state |-> "pending", x |-> 0]]]

Running(p) == {y \in DOMAIN p.rows : p.rows[y].state = "running"}

InitRender ==
    /\ scene \in Scenes
    /\ settings \in RenderSettingsSet
    /\ surface \in [0..(NumRayClasses - 1) -> 0..Len(build_spheres(scene))]
    /\ call = <<>>
    /\ context = <<>>
    /\ accum = <<>>
    /\ pass = <<>>
    /\ callbacks = <<>>
    /\ image = <<>>
    /\ LayoutIdle
    /\ BvhIdle
    /\ FrameIdle
    /\ FileIdle
    /\ TraceIdle
    /\ LaterIdle

\* render_scene up to the start of its pass.
CallRenderScene ==
    /\ call = <<>>
    /\ \E threads \in 0..MaxThreads :
          call' = <<[kind |-> "render_scene", threads |-> threads, every |-> 0,
                     step |-> 0, done |-> 0, target |-> settings.spp, passes |-> <<>>,
                     returned |-> FALSE]>>
    /\ context' = <<RenderContextNew(scene, settings)>>
    /\ accum' = [i \in 1..PixelCount(settings) |-> <<>>]
    /\ pass' = <<NewPass(0, settings.spp)>>
    /\ UNCHANGED <<scene, settings, surface, callbacks, image, layoutVars, bvhVars, frameVars, fileVars, traceVars, laterVars>>

\* The chunk size as the caller gave it.
ProgressiveStepUnclamped(progressive_every) == progressive_every

\* let step = progressive_every.max(1)
ProgressiveStep(progressive_every) == Max(progressive_every, 1)

\* render_scene_progressive up to the start of its first pass.
CallRenderProgressive ==
    /\ call = <<>>
    /\ \E threads \in 0..MaxThreads, progressive_every \in 0..MaxSpp :
          LET target == Max(settings.spp, 1)
              step   == ProgressiveStep(progressive_every)
          IN  /\ call' = <<[kind |-> "render_scene_progressive", threads |-> threads,
                            every |-> progressive_every, step |-> step, done |-> 0, target |-> target,
                            passes |-> <<>>, returned |-> FALSE]>>
              /\ pass' = <<NewPass(0, Min(target, step))>>
    /\ context' = <<RenderContextNew(scene, settings)>>
    /\ accum' = [i \in 1..PixelCount(settings) |-> <<>>]
    /\ UNCHANGED <<scene, settings, surface, callbacks, image, layoutVars, bvhVars, frameVars, fileVars, traceVars, laterVars>>

\* An entry of the buffer taken by column and then row.
RowEntryTransposed(width, y, x) == x * width + y + 1

\* par_chunks_mut(width).enumerate(): row[x] of chunk y is entry y * width + x
\* of the buffer (a sequence counts from 1).
RowEntry(width, y, x) == y * width + x + 1

\* An entry overwritten with the colour of the pass.
SetColor(entry, color) == <<color>>

\* row[x] = row[x] + color: the entry with the colour of this pass added.
AddColor(entry, color) == Append(entry, color)

\* A free worker takes a row that no worker has taken.
TakeRow ==
    /\ pass # <<>>
    /\ \E y \in DOMAIN pass[1].rows :
          /\ pass[1].rows[y].state = "pending"
          /\ Cardinality(Running(pass[1])) < Workers(call[1].threads)
          /\ pass' = <<[pass[1] EXCEPT !.rows[y].state = "running"]>>
    /\ UNCHANGED <<scene, settings, surface, call, context, accum, callbacks, image,
                   layoutVars, bvhVars, frameVars, fileVars, traceVars, laterVars>>

\* The worker of row y renders its next pixel: row[x] = row[x] + color.
RenderPixel ==
    /\ pass # <<>>
    /\ \E y \in DOMAIN pass[1].rows :
          LET x == pass[1].rows[y].x
          IN  /\ pass[1].rows[y].state = "running"
              /\ x < settings.width
              /\ accum' = [accum EXCEPT ![RowEntry(settings.width, y, x)] =
                              AddColor(@, PixelColor(context[1], settings, x, y,
                                                     pass[1].sample_offset,
                                                     pass[1].spp, pass[1].bounces))]
              /\ pass' = <<[pass[1] EXCEPT !.rows[y].x = x + 1]>>
    /\ UNCHANGED <<scene, settings, surface, call, context, callbacks, image,
                   layoutVars, bvhVars, frameVars, fileVars, traceVars, laterVars>>

\* The worker of row y is through its row: counter.fetch_add(1) when progress
\* is reported.
FinishRow ==
    /\ pass # <<>>
    /\ \E y \in DOMAIN pass[1].rows :
          /\ pass[1].rows[y].state = "running"
          /\ pass[1].rows[y].x = settings.width
          /\ pass' = <<[pass[1] EXCEPT
                          !.rows[y].state = "done",
                          !.order = Append(@, y),
                          !.counter = IF settings.progress_every > 0 THEN @ + 1 ELSE @]>>
    /\ UNCHANGED <<scene, settings, surface, call, context, accum, callbacks, image,
                   layoutVars, bvhVars, frameVars, fileVars, traceVars, laterVars>>

PassDone ==
    /\ pass # <<>>
    /\ \A y \in DOMAIN pass[1].rows : pass[1].rows[y].state = "done"

\* render_scene after its pass: the image from the buffer.
ReturnRenderScene ==
    /\ PassDone
    /\ call[1].kind = "render_scene"
    /\ image' = <<image_from_accum(accum, settings.width, settings.height, settings.spp)>>
    /\ call' = <<[call[1] EXCEPT
                    !.passes = Append(@, [sample_offset |-> pass[1].sample_offset,
                                          samples |-> pass[1].samples]),
                    !.returned = TRUE]>>
    /\ pass' = <<>>
    /\ UNCHANGED <<scene, settings, surface, context, accum, callbacks, layoutVars, bvhVars, frameVars, fileVars, traceVars, laterVars>>

\* render_scene_progressive after a pass: done advances, on_pass is called
\* with the image, and the loop goes on to the next pass or ends.
OnPass ==
    /\ PassDone
    /\ call[1].kind = "render_scene_progressive"
    /\ LET done == call[1].done + pass[1].samples
       IN  /\ callbacks' = Append(callbacks,
                  [done |-> done,
                   image |-> image_from_accum(accum, settings.width, settings.height, done)])
           /\ call' = <<[call[1] EXCEPT
                           !.done = done,
                           !.passes = Append(@, [sample_offset |-> pass[1].sample_offset,
                                                 samples |-> pass[1].samples]),
                           !.returned = ~(done < call[1].target)]>>
           /\ pass' = IF done < call[1].target
                      THEN <<NewPass(done, Min(call[1].target - done, call[1].step))>>
                      ELSE <<>>
    /\ UNCHANGED <<scene, settings, surface, context, accum, image, layoutVars, bvhVars, frameVars, fileVars, traceVars, laterVars>>

NextRender ==
    \/ CallRenderScene
    \/ CallRenderProgressive
    \/ TakeRow
    \/ RenderPixel
    \/ FinishRow
    \/ ReturnRenderScene
    \/ OnPass

SpecRender == InitRender /\ [][NextRender]_vars

-----------------------------------------------------------------------------
(* render_scene at the level of its buffers: the length of the            *)
(* accumulation buffer is the u32 product width * height, the pass cuts   *)
(* the buffer into chunks of width entries, and image_from_accum reads    *)
(* entry y * width + x for every pixel.  Lengths are u64 limbs.           *)

MaxFrameDim == 3

\* Small sizes, and the sizes around 2^16 whose product leaves u32.
FrameDims == 0..MaxFrameDim \cup {Pow2(16) - 1, Pow2(16), Pow2(16) + 1}

\* width * height as the mathematical product (both are below 2^32).
FramePixels(width, height) == WrappingMul(U64(width), U64(height))

OverflowsU32(n) == \E i \in 5..8 : n[i] # 0

\* The product modulo 2^32: what u32 multiplication without overflow
\* checks yields.
WrapU32(n) == [i \in 1..8 |-> IF i <= 4 THEN n[i] ELSE 0]

\* len % width for a length below 2^32 and a width of at most 2^23.
RECURSIVE RemLimbs(_, _, _, _)
RemLimbs(len, width, i, r) ==
    IF i = 0 THEN r
    ELSE RemLimbs(len, width, i - 1, (r * 256 + len[i]) % width)

ChunkRemainder(len, width) == RemLimbs(len, width, 4, 0)

\* (settings.width * settings.height) as usize: a panic where overflow
\* checks are compiled in, the wrapped product where they are not.
AccumLen(width, height) == WrapU32(FramePixels(width, height))

\* par_chunks_mut(width) asserts a chunk size other than zero; the last
\* chunk holds len % width entries when that is not zero, and the closure
\* writes row[x] for every x in 0..width.
PassPanics(len, width) ==
    \/ width = 0
    \/ ChunkRemainder(len, width) # 0

\* image_from_accum visits the pixels in row order, so y * width + x takes
\* the values 0, 1, 2, ... and accum[idx] leaves the buffer exactly when
\* there are more pixels than entries.
ImagePanics(len, width, height) == len # FramePixels(width, height)

InitFrame ==
    /\ dims \in [width : FrameDims, height : FrameDims,
                 overflow_checks : BOOLEAN]
    /\ frame = [pc |-> "alloc", accum_len |-> <<>>, image |-> <<>>]
    /\ LayoutIdle
    /\ BvhIdle
    /\ RenderIdle
    /\ FileIdle
    /\ TraceIdle
    /\ LaterIdle

\* let mut accum = vec![Vec3::zero(); (width * height) as usize];
AllocAccum ==
    /\ frame.pc = "alloc"
    /\ frame' =
         IF /\ dims.overflow_checks
            /\ OverflowsU32(FramePixels(dims.width, dims.height))
         THEN [frame EXCEPT !.pc = "panicked"]
         ELSE [frame EXCEPT !.pc = "pass",
                            !.accum_len = AccumLen(dims.width, dims.height)]
    /\ UNCHANGED <<dims, layoutVars, bvhVars, renderVars, fileVars, traceVars, laterVars>>

\* render_scene_accum(&context, settings, &mut accum, 0, settings.spp);
RenderPass ==
    /\ frame.pc = "pass"
    /\ frame' =
         IF PassPanics(frame.accum_len, dims.width)
         THEN [frame EXCEPT !.pc = "panicked"]
         ELSE [frame EXCEPT !.pc = "image"]
    /\ UNCHANGED <<dims, layoutVars, bvhVars, renderVars, fileVars, traceVars, laterVars>>

\* image_from_accum(&accum, settings.width, settings.height, settings.spp)
ImageFromAccum ==
    /\ frame.pc = "image"
    /\ frame' =
         IF ImagePanics(frame.accum_len, dims.width, dims.height)
         THEN [frame EXCEPT !.pc = "panicked"]
         ELSE [frame EXCEPT !.pc = "returned",
                            !.image = FramePixels(dims.width, dims.height)]
    /\ UNCHANGED <<dims, layoutVars, bvhVars, renderVars, fileVars, traceVars, laterVars>>

NextFrame ==
    \/ AllocAccum
    \/ RenderPass
    \/ ImageFromAccum

SpecFrame == InitFrame /\ [][NextFrame]_vars

-----------------------------------------------------------------------------
(* write_png: the image is saved under a temporary name next to the        *)
(* destination and renamed over it.  A path holds <<>> when no file has    *)
(* that name and <<content>> when one has; the content is the sequence of  *)
(* the chunks written, each labelled with the image it came from.          *)

NumImages == 2
FileChunks == 2
MaxWrites == 3

Images == 1..NumImages

Absent == <<>>

FileOf(content) == <<content>>
DestPath == "out.png"

\* parent.join(format!(".{}.part-{}-{}.{}", stem, pid, stamp, ext)) for the
\* destination out.png and process 1, by clock reading.
TempNames == <<".out.part-1-1.png", ".out.part-1-2.png">>

Stamps == DOMAIN TempNames

temp_path(path, stamp) == TempNames[stamp]

Paths == {DestPath} \cup Range(TempNames)

\* The file holding the whole encoded image, in chunks.
Encoded(img) == FileOf([k \in 1..FileChunks |-> img])

\* The path image.save is given.
SaveInPlace(path, tmp_path) == path

SaveTarget(path, tmp_path) == tmp_path

InitImageOut ==
    /\ files = [p \in Paths |-> Absent]
    /\ writer = <<>>
    /\ writes = <<>>
    /\ LayoutIdle
    /\ BvhIdle
    /\ RenderIdle
    /\ FrameIdle
    /\ TraceIdle
    /\ LaterIdle

Returns(ok) ==
    /\ writes' = Append(writes, [image |-> writer[1].image, ok |-> ok])
    /\ writer' = <<>>

\* let tmp_path = temp_path(path);
CallWritePng ==
    /\ writer = <<>>
    /\ Len(writes) < MaxWrites
    /\ \E img \in Images, stamp \in Stamps :
         writer' = <<[image |-> img,
                      tmp_path |-> temp_path(DestPath, stamp),
                      pc |-> "create"]>>
    /\ UNCHANGED <<files, writes>>
    /\ UNCHANGED <<layoutVars, bvhVars, renderVars, frameVars, traceVars, laterVars>>

\* image.save(&tmp_path)?: the file is created, or truncated if it exists.
SaveCreate ==
    /\ writer # <<>>
    /\ writer[1].pc = "create"
    /\ files' = [files EXCEPT
                   ![SaveTarget(DestPath, writer[1].tmp_path)] = FileOf(<<>>)]
    /\ writer' = <<[writer[1] EXCEPT !.pc = "write"]>>
    /\ UNCHANGED writes
    /\ UNCHANGED <<layoutVars, bvhVars, renderVars, frameVars, traceVars, laterVars>>

\* image.save(&tmp_path)?: one more chunk of the encoding is written.
SaveWrite ==
    /\ writer # <<>>
    /\ writer[1].pc = "write"
    /\ LET target == SaveTarget(DestPath, writer[1].tmp_path)
           grown == Append(files[target][1], writer[1].image)
       IN  /\ files' = [files EXCEPT ![target] = FileOf(grown)]
           /\ writer' = <<[writer[1] EXCEPT
                             !.pc = IF Len(grown) = FileChunks
                                    THEN "sync" ELSE "write"]>>
    /\ UNCHANGED writes
    /\ UNCHANGED <<layoutVars, bvhVars, renderVars, frameVars, traceVars, laterVars>>

\* image.save(&tmp_path)?: creating or writing fails; the error is
\* returned and what was written stays where it is.
SaveFails ==
    /\ writer # <<>>
    /\ writer[1].pc \in {"create", "write"}
    /\ Returns(FALSE)
    /\ UNCHANGED files
    /\ UNCHANGED <<layoutVars, bvhVars, renderVars, frameVars, traceVars, laterVars>>

\* fs::File::open(&tmp_path) and sync_all, whose errors are ignored.
SyncTemp ==
    /\ writer # <<>>
    /\ writer[1].pc = "sync"
    /\ writer' = <<[writer[1] EXCEPT !.pc = "rename"]>>
    /\ UNCHANGED <<files, writes>>
    /\ UNCHANGED <<layoutVars, bvhVars, renderVars, frameVars, traceVars, laterVars>>

\* fs::rename(&tmp_path, path) succeeds: the destination takes the content
\* of the temporary file, whose name disappears.
RenameOk ==
    /\ writer # <<>>
    /\ writer[1].pc = "rename"
    /\ files[writer[1].tmp_path] # Absent
    /\ files' = [files EXCEPT ![DestPath] = files[writer[1].tmp_path],
                              ![writer[1].tmp_path] = Absent]
    /\ writer' = <<[writer[1] EXCEPT !.pc = "dirsync"]>>
    /\ UNCHANGED writes
    /\ UNCHANGED <<layoutVars, bvhVars, renderVars, frameVars, traceVars, laterVars>>

\* fs::rename fails: let _ = fs::remove_file(&tmp_path), which may fail
\* too, and the error is returned.
RenameFails ==
    /\ writer # <<>>
    /\ writer[1].pc = "rename"
    /\ \E removed \in BOOLEAN :
         files' = IF removed
                  THEN [files EXCEPT ![writer[1].tmp_path] = Absent]
                  ELSE files
    /\ Returns(FALSE)
    /\ UNCHANGED <<layoutVars, bvhVars, renderVars, frameVars, traceVars, laterVars>>

\* The parent directory is synced, errors ignored, and Ok(()) returned.
SyncDir ==
    /\ writer # <<>>
    /\ writer[1].pc = "dirsync"
    /\ Returns(TRUE)
    /\ UNCHANGED files
    /\ UNCHANGED <<layoutVars, bvhVars, renderVars, frameVars, traceVars, laterVars>>

NextImageOut ==
    \/ CallWritePng
    \/ SaveCreate
    \/ SaveWrite
    \/ SaveFails
    \/ SyncTemp
    \/ RenameOk
    \/ RenameFails
    \/ SyncDir

SpecImageOut == InitImageOut /\ [][NextImageOut]_vars

-----------------------------------------------------------------------------
(* run_traces_with_runner: one thread per target runs its repeats in      *)
(* order, each run under a semaphore permit, and sends every job with its  *)
(* slot over a channel; the caller stores each job in its slot.  Threads   *)
(* are numbered from 0, as enumerate() numbers the targets.                *)

MaxTargets == 2
MaxRepeat == 2
MaxConcurrency == 2

TargetNames == {"a", "b"}
\* What a run of the runner gives: output that parses, output that does
\* not, or an error.
RawOutputs == {"ok", "unparsable", "failed"}

TargetLists == SeqsUpTo(TargetNames, MaxTargets)

\* Semaphore::new(concurrency.max(1))
Permits(concurrency) == Max(concurrency, 1)

\* let total_jobs = targets.len() * repeat as usize;
TotalJobs(args) == Len(args.targets) * args.repeat

\* let base_index = target_index * repeat as usize;
BaseIndexUnscaled(target_index, repeat) == target_index

BaseIndex(target_index, repeat) == target_index * repeat

\* The result of a job: Ok(parsed), or Err with the message of
\* format_parse_error or format_run_error.
ResultOf(target, rep, raw) ==
    IF raw = "ok"
    THEN [ok |-> TRUE, what |-> "parsed", target |-> target, repeat |-> 0]
    ELSE [ok |-> FALSE,
          what |-> IF raw = "unparsable" THEN "parse failed"
                   ELSE "traceroute failed",
          target |-> target, repeat |-> rep]

\* A semaphore that lets one more thread in.
MustWaitAbove(state, max) == state > max

\* while *guard >= self.max { guard = self.cvar.wait(guard).unwrap(); }
MustWait(state, max) == state >= max

\* A notification that wakes no thread.
NotifyNone(waiting) == {{}}

\* self.cvar.notify_one(): the threads woken, one of those waiting if
\* there is one.
NotifyOne(waiting) == IF waiting = {} THEN {{}} ELSE {{w} : w \in waiting}

\* results.into_iter().filter_map(|job| job).collect()
RECURSIVE FilterMap(_, _, _)
FilterMap(slots, i, total) ==
    IF i >= total THEN <<>>
    ELSE slots[i] \o FilterMap(slots, i + 1, total)

InitTrace ==
    /\ traceArgs \in [targets : TargetLists,
                      repeat : 0..MaxRepeat,
                      concurrency : 0..MaxConcurrency]
    /\ workers = <<>>
    /\ semaphore = 0
    /\ channel = <<>>
    /\ collector = [pc |-> "spawn", received |-> 0, results |-> <<>>,
                    arrivals |-> <<>>, output |-> <<>>]
    /\ LayoutIdle
    /\ BvhIdle
    /\ RenderIdle
    /\ FrameIdle
    /\ FileIdle
    /\ LaterIdle

Spawned == Cardinality(DOMAIN workers)

\* if targets.is_empty() || repeat == 0 { return Vec::new(); }
ReturnEmpty ==
    /\ collector.pc = "spawn"
    /\ traceArgs.targets = <<>> \/ traceArgs.repeat = 0
    /\ collector' = [collector EXCEPT !.pc = "returned", !.output = <<>>]
    /\ UNCHANGED <<traceArgs, workers, semaphore, channel>>
    /\ UNCHANGED <<layoutVars, bvhVars, renderVars, frameVars, fileVars, laterVars>>

\* thread::spawn for the next target; after the last one, drop(tx) and
\* results = vec![None; total_jobs].
Spawn ==
    /\ collector.pc = "spawn"
    /\ traceArgs.targets # <<>>
    /\ traceArgs.repeat # 0
    /\ Spawned < Len(traceArgs.targets)
    /\ workers' = [t \in 0..Spawned |->
                     IF t < Spawned THEN workers[t]
                     ELSE [pc |-> "acquire", rep |-> 0, raws |-> <<>>,
                           waited |-> FALSE]]
    /\ collector' =
         IF Spawned + 1 < Len(traceArgs.targets) THEN collector
         ELSE [collector EXCEPT
                 !.pc = "recv",
                 !.results = [i \in 0..(TotalJobs(traceArgs) - 1) |-> <<>>]]
    /\ UNCHANGED <<traceArgs, semaphore, channel>>
    /\ UNCHANGED <<layoutVars, bvhVars, renderVars, frameVars, fileVars, laterVars>>

Waiting == {w \in DOMAIN workers : workers[w].pc = "waiting"}

\* let _permit = semaphore.acquire(): under the lock, the thread takes a
\* permit, or finds none free and waits on the condition variable.
Acquire(t) ==
    /\ workers[t].pc = "acquire"
    /\ IF MustWait(semaphore, Permits(traceArgs.concurrency))
       THEN /\ workers' = [workers EXCEPT ![t].pc = "waiting",
                                          ![t].waited = TRUE]
            /\ UNCHANGED semaphore
       ELSE /\ workers' = [workers EXCEPT ![t].pc = "run"]
            /\ semaphore' = semaphore + 1
    /\ UNCHANGED <<traceArgs, channel, collector>>
    /\ UNCHANGED <<layoutVars, bvhVars, renderVars, frameVars, fileVars, laterVars>>

\* cvar.wait returns without a notification, as a condition variable may:
\* the thread tests the counter again.
SpuriousWake(t) ==
    /\ workers[t].pc = "waiting"
    /\ workers' = [workers EXCEPT ![t].pc = "acquire"]
    /\ UNCHANGED <<traceArgs, semaphore, channel, collector>>
    /\ UNCHANGED <<layoutVars, bvhVars, renderVars, frameVars, fileVars, laterVars>>

\* runner.run(&target_clone, &settings) returns and the permit is dropped:
\* release takes the counter down and notifies one waiting thread.
Run(t) ==
    /\ workers[t].pc = "run"
    /\ \E raw \in RawOutputs, woken \in NotifyOne(Waiting) :
         workers' = [w \in DOMAIN workers |->
                       IF w = t
                       THEN [workers[w] EXCEPT !.pc = "send",
                                               !.raws = Append(@, raw)]
                       ELSE IF w \in woken
                       THEN [workers[w] EXCEPT !.pc = "acquire"]
                       ELSE workers[w]]
    /\ semaphore' = IF semaphore > 0 THEN semaphore - 1 ELSE semaphore
    /\ UNCHANGED <<traceArgs, channel, collector>>
    /\ UNCHANGED <<layoutVars, bvhVars, renderVars, frameVars, fileVars, laterVars>>

\* The job is built and sent with its slot, base_index + rep; the loop
\* goes on with the next repeat.
Send(t) ==
    /\ workers[t].pc = "send"
    /\ LET rep == workers[t].rep
           job == [target |-> traceArgs.targets[t + 1],
                   repeat |-> rep,
                   result |-> ResultOf(traceArgs.targets[t + 1], rep,
                                       workers[t].raws[rep + 1])]
       IN  channel' = Append(channel,
                             [idx |-> BaseIndex(t, traceArgs.repeat) + rep,
                              job |-> job])
    /\ workers' = [workers EXCEPT
                     ![t].rep = @ + 1,
                     ![t].pc = IF workers[t].rep + 1 < traceArgs.repeat
                               THEN "acquire" ELSE "done"]
    /\ UNCHANGED <<traceArgs, semaphore, collector>>
    /\ UNCHANGED <<layoutVars, bvhVars, renderVars, frameVars, fileVars, laterVars>>

\* if let Ok((idx, job)) = rx.recv() { results[idx] = Some(job); }, once
\* per job.  Every thread sends all its jobs, so recv never finds the
\* channel closed.
Recv ==
    /\ collector.pc = "recv"
    /\ channel # <<>>
    /\ LET msg == Head(channel)
       IN  collector' = [collector EXCEPT
             !.results[msg.idx] = <<msg.job>>,
             !.arrivals = Append(@, msg.idx),
             !.received = @ + 1,
             !.pc = IF collector.received + 1 = TotalJobs(traceArgs)
                    THEN "join" ELSE "recv"]
    /\ channel' = Tail(channel)
    /\ UNCHANGED <<traceArgs, workers, semaphore>>
    /\ UNCHANGED <<layoutVars, bvhVars, renderVars, frameVars, fileVars, laterVars>>

\* Every handle is joined and the filled slots are returned in slot order.
JoinAndCollect ==
    /\ collector.pc = "join"
    /\ \A t \in DOMAIN workers : workers[t].pc = "done"
    /\ collector' = [collector EXCEPT
         !.pc = "returned",
         !.output = FilterMap(collector.results, 0, TotalJobs(traceArgs))]
    /\ UNCHANGED <<traceArgs, workers, semaphore, channel>>
    /\ UNCHANGED <<layoutVars, bvhVars, renderVars, frameVars, fileVars, laterVars>>

NextTrace ==
    \/ ReturnEmpty
    \/ Spawn
    \/ \E t \in DOMAIN workers : Acquire(t)
    \/ \E t \in DOMAIN workers : SpuriousWake(t)
    \/ \E t \in DOMAIN workers : Run(t)
    \/ \E t \in DOMAIN workers : Send(t)
    \/ Recv
    \/ JoinAndCollect

SpecTrace == InitTrace /\ [][NextTrace]_vars

\* The caller's thread and every spawned thread keep being scheduled while
\* they can take a step, and every call of the runner returns.  A wait on
\* the condition variable ends for certain only by a notification, so
\* SpuriousWake gets no fairness.
ThreadIds == 0 .. MaxTargets - 1

FairThread(t) ==
    /\ WF_vars(t \in DOMAIN workers /\ Acquire(t))
    /\ WF_vars(t \in DOMAIN workers /\ Run(t))
    /\ WF_vars(t \in DOMAIN workers /\ Send(t))

SpecTraceFair ==
    /\ SpecTrace
    /\ WF_vars(ReturnEmpty \/ Spawn \/ Recv \/ JoinAndCollect)
    /\ \A t \in ThreadIds : FairThread(t)

-----------------------------------------------------------------------------
(* build_graph (build.rs).  A hop has an optional ip and a list of probes, *)
(* each an optional round-trip time in milliseconds; an optional value is  *)
(* <<>> or <<value>>.  A map is a function over the keys it holds.         *)

MaxHops == 2
MaxTraceRuns == 2

Unknown == <<117, 110, 107, 110, 111, 119, 110>>    \* "unknown"

HopIps == {<<>>, <<IdA>>, <<IdB>>}
ProbeLists == {<< <<>> >>, << <<1>> >>, << <<>>, <<3>> >>}
HopSet == [ip : HopIps, rtt_ms : ProbeLists]
TraceRuns == [hops : SeqsUpTo(HopSet, MaxHops)]
TraceFiles == [runs : SeqsUpTo(TraceRuns, MaxTraceRuns)]

\* hop.ip.clone().unwrap_or_else(|| "unknown".to_string())
hop_id(hop) == IF hop.ip = <<>> THEN Unknown ELSE hop.ip[1]

\* hop.rtt_ms.iter().copied().flatten().next()
RECURSIVE FirstSome(_)
FirstSome(probes) ==
    IF probes = <<>> THEN <<>>
    ELSE IF Head(probes) # <<>> THEN Head(probes)
    ELSE FirstSome(Tail(probes))

first_rtt(hop) == FirstSome(hop.rtt_ms)

\* hop.rtt_ms.iter().filter(|probe| probe.is_none()).count()
LossCount(hop) == Cardinality({i \in DOMAIN hop.rtt_ms : hop.rtt_ms[i] = <<>>})

NodeStatsDefault == [seen |-> 0, loss_probes |-> 0]
EdgeStatsDefault == [seen |-> 0, sum_delta |-> 0, delta_count |-> 0]

\* map.entry(key).or_default(), changed to value.
WithEntry(map, key, value) ==
    [k \in DOMAIN map \cup {key} |-> IF k = key THEN value ELSE map[k]]

EntryOr(map, key, default) == IF key \in DOMAIN map THEN map[key] ELSE default

\* Whether a hop counts as seen: on every hop.
OnEveryHop(id, seen_this_run) == TRUE

\* seen_this_run.insert(id.clone()): true when the id was not in the set.
FirstInRun(id, seen_this_run) == id \notin seen_this_run

\* One turn of the hop loop on the node statistics.
CountHop(stats, hop, seen_this_run) ==
    [seen |-> EntryOr(stats, hop_id(hop), NodeStatsDefault).seen
                + (IF FirstInRun(hop_id(hop), seen_this_run) THEN 1 ELSE 0),
     loss_probes |-> EntryOr(stats, hop_id(hop), NodeStatsDefault).loss_probes
                       + LossCount(hop)]

\* for hop in &run.hops { ... }
RECURSIVE CountHops(_, _, _)
CountHops(stats, hops, seen_this_run) ==
    IF hops = <<>> THEN stats
    ELSE CountHops(WithEntry(stats, hop_id(Head(hops)),
                             CountHop(stats, Head(hops), seen_this_run)),
                   Tail(hops),
                   seen_this_run \cup {hop_id(Head(hops))})

\* One turn of the window loop on the statistics of the edge (from, to).
CountWindow(old, a, b) ==
    IF first_rtt(a) # <<>> /\ first_rtt(b) # <<>>
    THEN [seen |-> old.seen + 1,
          sum_delta |-> old.sum_delta + first_rtt(b)[1] - first_rtt(a)[1],
          delta_count |-> old.delta_count + 1]
    ELSE [old EXCEPT !.seen = @ + 1]

\* for window in run.hops.windows(2) { ... }
RECURSIVE CountWindows(_, _)
CountWindows(stats, hops) ==
    IF Len(hops) < 2 THEN stats
    ELSE CountWindows(
           WithEntry(stats, <<hop_id(hops[1]), hop_id(hops[2])>>,
                     CountWindow(EntryOr(stats, <<hop_id(hops[1]), hop_id(hops[2])>>,
                                         EdgeStatsDefault),
                                 hops[1], hops[2])),
           Tail(hops))

\* a.from.cmp(&b.from), then a.to.cmp(&b.to)
EdgeKeyLt(a, b) == StrLt(a[1], b[1]) \/ (a[1] = b[1] /\ StrLt(a[2], b[2]))

\* The keys of a map in the order the sort leaves them in.
RECURSIVE SortedIds(_)
SortedIds(keys) ==
    IF keys = {} THEN <<>>
    ELSE LET least == CHOOSE x \in keys : \A y \in keys \ {x} : StrLt(x, y)
         IN  <<least>> \o SortedIds(keys \ {least})

RECURSIVE SortedEdgeKeys(_)
SortedEdgeKeys(keys) ==
    IF keys = {} THEN <<>>
    ELSE LET least == CHOOSE x \in keys : \A y \in keys \ {x} : EdgeKeyLt(x, y)
         IN  <<least>> \o SortedEdgeKeys(keys \ {least})

GraphNodeOf(stats, id) ==
    [id |-> id, seen |-> stats[id].seen, loss_probes |-> stats[id].loss_probes]

\* rtt_delta_ms_avg as the fraction <<sum, count>>, and <<0, 1>> for 0.0.
GraphEdgeOf(stats, key) ==
    [from |-> key[1], to |-> key[2], seen |-> stats[key].seen,
     rtt_delta_ms_avg |-> IF stats[key].delta_count > 0
                          THEN <<stats[key].sum_delta, stats[key].delta_count>>
                          ELSE <<0, 1>>]

NodesOfStats(stats, order) == [i \in DOMAIN order |-> GraphNodeOf(stats, order[i])]

EdgesOfStats(stats, order) == [i \in DOMAIN order |-> GraphEdgeOf(stats, order[i])]

InitBuild ==
    /\ traceFile \in TraceFiles
    /\ nodeStats = <<>>
    /\ edgeStats = <<>>
    /\ runsDone = 0
    /\ graphOut = <<>>
    /\ LayoutIdle
    /\ BvhIdle
    /\ RenderIdle
    /\ FrameIdle
    /\ FileIdle
    /\ TraceIdle
    /\ RunIdle
    /\ PipeIdle
    /\ StreamIdle

\* One turn of `for run in &trace_file.runs`.
BuildRun ==
    /\ graphOut = <<>>
    /\ runsDone < Len(traceFile.runs)
    /\ nodeStats' = CountHops(nodeStats, traceFile.runs[runsDone + 1].hops, {})
    /\ edgeStats' = CountWindows(edgeStats, traceFile.runs[runsDone + 1].hops)
    /\ runsDone' = runsDone + 1
    /\ UNCHANGED <<traceFile, graphOut>>
    /\ UNCHANGED <<earlierVars, runVars, pipeVars, streamVars>>

\* After the loop: the maps become the sorted node and edge lists.
CollectGraph ==
    /\ graphOut = <<>>
    /\ runsDone = Len(traceFile.runs)
    /\ graphOut' = <<[version |-> 1,
                      nodes |-> NodesOfStats(nodeStats, SortedIds(DOMAIN nodeStats)),
                      edges |-> EdgesOfStats(edgeStats,
                                             SortedEdgeKeys(DOMAIN edgeStats))]>>
    /\ UNCHANGED <<traceFile, nodeStats, edgeStats, runsDone>>
    /\ UNCHANGED <<earlierVars, runVars, pipeVars, streamVars>>

NextBuild == BuildRun \/ CollectGraph

SpecBuild == InitBuild /\ [][NextBuild]_vars

-----------------------------------------------------------------------------
(* run_render (main.rs): the progressive render with the callback that     *)
(* writes the image of every pass, and the one-pass render followed by one *)
(* write.  The buffer is kept as the list of the chunks added to it, the   *)
(* image of a pass as the buffer it was made from and the sample count it  *)
(* is divided by.                                                          *)

MaxRunSpp == 4
MaxChunk == 2

RunRenderArgs == [spp : 0..MaxRunSpp, progressive_every : 0..MaxChunk]

\* render_scene_accum(&context, settings, &mut accum, done, this_pass)
AddChunk(sums, sample_offset, samples) ==
    Append(sums, [sample_offset |-> sample_offset, samples |-> samples])

SnapshotOf(sums, samples) == [sums |-> sums, samples |-> Max(samples, 1)]

\* A call that ends in Ok whatever the writes did.
AlwaysOk(write_error) == <<"Ok">>

\* if let Some(err) = write_error { Err(err) } else { Ok(()) }
RunResult(write_error) ==
    IF write_error # <<>> THEN <<"Err", write_error[1]>> ELSE <<"Ok">>

InitRunRender ==
    /\ renderArgs \in RunRenderArgs
    /\ renderRun = [pc |-> "start", done |-> 0, target |-> 0, step |-> 0,
                    sums |-> <<>>, write_error |-> <<>>, skipped |-> 0,
                    result |-> <<>>]
    /\ outImage = <<>>
    /\ LayoutIdle
    /\ BvhIdle
    /\ RenderIdle
    /\ FrameIdle
    /\ FileIdle
    /\ TraceIdle
    /\ BuildIdle
    /\ PipeIdle
    /\ StreamIdle

\* if args.progressive_every > 0: render_scene_progressive up to its loop.
StartProgressive ==
    /\ renderRun.pc = "start"
    /\ renderArgs.progressive_every > 0
    /\ renderRun' = [renderRun EXCEPT
                       !.pc = "pass",
                       !.target = Max(renderArgs.spp, 1),
                       !.step = Max(renderArgs.progressive_every, 1)]
    /\ UNCHANGED <<renderArgs, outImage>>
    /\ UNCHANGED <<earlierVars, buildVars, pipeVars, streamVars>>

\* One pass of the loop: the chunk is added to the buffer and done advances.
ProgressivePass ==
    /\ renderRun.pc = "pass"
    /\ renderRun.done < renderRun.target
    /\ LET this_pass == Min(renderRun.target - renderRun.done, renderRun.step)
       IN  renderRun' = [renderRun EXCEPT
                           !.pc = "callback",
                           !.sums = AddChunk(@, renderRun.done, this_pass),
                           !.done = @ + this_pass]
    /\ UNCHANGED <<renderArgs, outImage>>
    /\ UNCHANGED <<earlierVars, buildVars, pipeVars, streamVars>>

\* The callback after an earlier write failed: it returns at once.
CallbackSkips ==
    /\ renderRun.pc = "callback"
    /\ renderRun.write_error # <<>>
    /\ renderRun' = [renderRun EXCEPT !.pc = "pass", !.skipped = @ + 1]
    /\ UNCHANGED <<renderArgs, outImage>>
    /\ UNCHANGED <<earlierVars, buildVars, pipeVars, streamVars>>

\* The callback's write_png(&args.out, image) returns Ok.
CallbackWrites ==
    /\ renderRun.pc = "callback"
    /\ renderRun.write_error = <<>>
    /\ outImage' = <<SnapshotOf(renderRun.sums, renderRun.done)>>
    /\ renderRun' = [renderRun EXCEPT !.pc = "pass"]
    /\ UNCHANGED renderArgs
    /\ UNCHANGED <<earlierVars, buildVars, pipeVars, streamVars>>

\* The callback's write_png returns Err: the error is kept, the output
\* path holds what it held.
CallbackWriteFails ==
    /\ renderRun.pc = "callback"
    /\ renderRun.write_error = <<>>
    /\ renderRun' = [renderRun EXCEPT !.pc = "pass",
                                      !.write_error = <<renderRun.done>>]
    /\ UNCHANGED <<renderArgs, outImage>>
    /\ UNCHANGED <<earlierVars, buildVars, pipeVars, streamVars>>

\* After the loop: the kept error, if any, is the result.
FinishProgressive ==
    /\ renderRun.pc = "pass"
    /\ ~(renderRun.done < renderRun.target)
    /\ renderRun' = [renderRun EXCEPT
                       !.pc = "returned",
                       !.result = RunResult(renderRun.write_error)]
    /\ UNCHANGED <<renderArgs, outImage>>
    /\ UNCHANGED <<earlierVars, buildVars, pipeVars, streamVars>>

\* else: let image = render_scene(&scene, &settings);
RenderOnce ==
    /\ renderRun.pc = "start"
    /\ renderArgs.progressive_every = 0
    /\ renderRun' = [renderRun EXCEPT
                       !.pc = "write",
                       !.sums = AddChunk(@, 0, renderArgs.spp),
                       !.done = renderArgs.spp]
    /\ UNCHANGED <<renderArgs, outImage>>
    /\ UNCHANGED <<earlierVars, buildVars, pipeVars, streamVars>>

\* write_png(&args.out, &image).map_err(...)?; Ok(())
WriteOnce ==
    /\ renderRun.pc = "write"
    /\ \E ok \in BOOLEAN :
         IF ok
         THEN /\ outImage' = <<SnapshotOf(renderRun.sums, renderRun.done)>>
              /\ renderRun' = [renderRun EXCEPT !.pc = "returned",
                                                !.result = <<"Ok">>]
         ELSE /\ outImage' = outImage
              /\ renderRun' = [renderRun EXCEPT
                                 !.pc = "returned",
                                 !.write_error = <<renderRun.done>>,
                                 !.result = <<"Err", renderRun.done>>]
    /\ UNCHANGED renderArgs
    /\ UNCHANGED <<earlierVars, buildVars, pipeVars, streamVars>>

NextRunRender ==
    \/ StartProgressive
    \/ ProgressivePass
    \/ CallbackSkips
    \/ CallbackWrites
    \/ CallbackWriteFails
    \/ FinishProgressive
    \/ RenderOnce
    \/ WriteOnce

SpecRunRender == InitRunRender /\ [][NextRunRender]_vars

-----------------------------------------------------------------------------
(* run_run (main.rs): the pipeline trace, build, layout, render over the   *)
(* artifacts traces.json, graph.json, scene.json and render.png of the     *)
(* output directory.  An artifact is absent, <<>>, or <<[version, from]>>: *)
(* the run that wrote it and the version of the upstream artifact it was   *)
(* derived from.  Artifacts found in the directory are of an old version  *)
(* and derive from old versions; this call writes new versions.            *)

OldVersion == "old"
NewVersion == "new"

StepNames == <<"trace", "build", "layout", "render">>
Steps == DOMAIN StepNames

OldArtifact == <<[version |-> OldVersion, from |-> OldVersion]>>

\* let allow_skip = args.resume && !args.force;
allow_skip(flags) == flags.resume /\ ~flags.force

\* let skip_<step> = allow_skip && <artifact>_path.exists();
skip_step(flags, found, k) == allow_skip(flags) /\ found[k] # <<>>

\* The version of what step k reads: the upstream artifact, or nothing
\* for the trace step.
UpstreamVersion(found, k) == IF k = 1 THEN NewVersion ELSE found[k - 1][1].version

InitPipeline ==
    /\ runFlags \in [resume : BOOLEAN, force : BOOLEAN,
                     out_dir : {"absent", "file", "dir"}]
    /\ artifacts \in [Steps -> {<<>>, OldArtifact}]
    /\ runFlags.out_dir # "dir" => \A k \in Steps : artifacts[k] = <<>>
    /\ pipeline = [pc |-> 0, executed |-> <<>>, skipped |-> <<>>,
                   result |-> <<>>]
    /\ LayoutIdle
    /\ BvhIdle
    /\ RenderIdle
    /\ FrameIdle
    /\ FileIdle
    /\ TraceIdle
    /\ BuildIdle
    /\ RunIdle
    /\ StreamIdle

\* The checks of the output directory before the first step.
CheckOutDir ==
    /\ pipeline.pc = 0
    /\ pipeline.result = <<>>
    /\ pipeline' =
         IF runFlags.out_dir = "file"
         THEN [pipeline EXCEPT !.result = <<"Err">>]
         ELSE IF runFlags.out_dir = "dir" /\ ~runFlags.force /\ ~runFlags.resume
         THEN [pipeline EXCEPT !.result = <<"Err">>]
         ELSE [pipeline EXCEPT !.pc = 1]
    /\ UNCHANGED <<runFlags, artifacts>>
    /\ UNCHANGED <<earlierVars, buildVars, runVars, streamVars>>

\* if skip_<step> { ui.step_skip(...) }
SkipStep ==
    /\ pipeline.pc \in Steps
    /\ pipeline.result = <<>>
    /\ skip_step(runFlags, artifacts, pipeline.pc)
    /\ pipeline' = [pipeline EXCEPT !.pc = @ + 1,
                                    !.skipped = Append(@, pipeline.pc)]
    /\ UNCHANGED <<runFlags, artifacts>>
    /\ UNCHANGED <<earlierVars, buildVars, runVars, streamVars>>

\* else { run_<step>(...)?; ui.step_ok(...) }: the step reads the upstream
\* artifact and replaces its own.
ExecuteStep ==
    /\ pipeline.pc \in Steps
    /\ pipeline.result = <<>>
    /\ ~skip_step(runFlags, artifacts, pipeline.pc)
    /\ artifacts' = [artifacts EXCEPT ![pipeline.pc] =
                       <<[version |-> NewVersion,
                          from |-> UpstreamVersion(artifacts, pipeline.pc)]>>]
    /\ pipeline' = [pipeline EXCEPT !.pc = @ + 1,
                                    !.executed = Append(@, pipeline.pc)]
    /\ UNCHANGED runFlags
    /\ UNCHANGED <<earlierVars, buildVars, runVars, streamVars>>

\* run_<step>(...)? returns the error of the step; its artifact is as it
\* was.
StepFails ==
    /\ pipeline.pc \in Steps
    /\ pipeline.result = <<>>
    /\ ~skip_step(runFlags, artifacts, pipeline.pc)
    /\ pipeline' = [pipeline EXCEPT !.result = <<"Err">>]
    /\ UNCHANGED <<runFlags, artifacts>>
    /\ UNCHANGED <<earlierVars, buildVars, runVars, streamVars>>

\* write_json(&run_path, &receipt)?; ... Ok(())
WriteReceipt ==
    /\ pipeline.pc = Len(StepNames) + 1
    /\ pipeline.result = <<>>
    /\ \E ok \in BOOLEAN :
         pipeline' = [pipeline EXCEPT
                        !.result = IF ok THEN <<"Ok">> ELSE <<"Err">>]
    /\ UNCHANGED <<runFlags, artifacts>>
    /\ UNCHANGED <<earlierVars, buildVars, runVars, streamVars>>

NextPipeline ==
    \/ CheckOutDir
    \/ SkipStep
    \/ ExecuteStep
    \/ StepFails
    \/ WriteReceipt

SpecPipeline == InitPipeline /\ [][NextPipeline]_vars

-----------------------------------------------------------------------------
(* spawn_traceroute_stream (stream.rs) after the child was spawned: the    *)
(* child writes lines to its stdout and stderr pipes and exits; one thread *)
(* reads stdout and sends a HopUpdate per hop line, one collects stderr    *)
(* and sends an Error at its end, one waits for the child and sends Done.  *)

MaxLines == 2
MaxErrLines == 1

\* A line of stdout is a hop line with its ttl, or a line that is none.
StdoutLines == {[hop |-> TRUE, ttl |-> 1], [hop |-> TRUE, ttl |-> 2],
                [hop |-> FALSE, ttl |-> 0]}

\* parse_hop_line(&line).is_ok()
IsHopLine(line) == line.hop

HopUpdateOf(line) == [kind |-> "HopUpdate", ttl |-> line.ttl]
DoneEvent == [kind |-> "Done", ttl |-> 0]
ErrorEvent == [kind |-> "Error", ttl |-> 0]

InitStream ==
    /\ child \in [out : SeqsUpTo(StdoutLines, MaxLines),
                  err : 0..MaxErrLines,
                  exited : {FALSE}]
    /\ pipe = [out |-> <<>>, err |-> 0]
    /\ readers = [stdout |-> "reading", stderr |-> "reading", buf |-> 0,
                  wait |-> "waiting"]
    /\ events = <<>>
    /\ LayoutIdle
    /\ BvhIdle
    /\ RenderIdle
    /\ FrameIdle
    /\ FileIdle
    /\ TraceIdle
    /\ BuildIdle
    /\ RunIdle
    /\ PipeIdle

\* The child writes its next line to stdout.
ChildWritesOut ==
    /\ ~child.exited
    /\ child.out # <<>>
    /\ pipe' = [pipe EXCEPT !.out = Append(@, Head(child.out))]
    /\ child' = [child EXCEPT !.out = Tail(@)]
    /\ UNCHANGED <<readers, events>>
    /\ UNCHANGED <<earlierVars, buildVars, runVars, pipeVars>>

\* The child writes a line to stderr.
ChildWritesErr ==
    /\ ~child.exited
    /\ child.err > 0
    /\ pipe' = [pipe EXCEPT !.err = @ + 1]
    /\ child' = [child EXCEPT !.err = @ - 1]
    /\ UNCHANGED <<readers, events>>
    /\ UNCHANGED <<earlierVars, buildVars, runVars, pipeVars>>

\* The child exits, having written what it had to write or not; what is
\* in the pipes stays there for the readers.
ChildExits ==
    /\ ~child.exited
    /\ child' = [child EXCEPT !.exited = TRUE]
    /\ UNCHANGED <<pipe, readers, events>>
    /\ UNCHANGED <<earlierVars, buildVars, runVars, pipeVars>>

\* One turn of the stdout loop: a line is read and, when it parses as a
\* hop, sent as a HopUpdate.
StdoutRead ==
    /\ readers.stdout = "reading"
    /\ pipe.out # <<>>
    /\ pipe' = [pipe EXCEPT !.out = Tail(@)]
    /\ events' = IF IsHopLine(Head(pipe.out))
                 THEN Append(events, HopUpdateOf(Head(pipe.out)))
                 ELSE events
    /\ UNCHANGED <<child, readers>>
    /\ UNCHANGED <<earlierVars, buildVars, runVars, pipeVars>>

\* The stdout loop ends at the end of the pipe.
StdoutEnds ==
    /\ readers.stdout = "reading"
    /\ pipe.out = <<>>
    /\ child.exited
    /\ readers' = [readers EXCEPT !.stdout = "done"]
    /\ UNCHANGED <<child, pipe, events>>
    /\ UNCHANGED <<earlierVars, buildVars, runVars, pipeVars>>

\* One turn of the stderr loop: a line is added to buf.
StderrRead ==
    /\ readers.stderr = "reading"
    /\ pipe.err > 0
    /\ pipe' = [pipe EXCEPT !.err = @ - 1]
    /\ readers' = [readers EXCEPT !.buf = @ + 1]
    /\ UNCHANGED <<child, events>>
    /\ UNCHANGED <<earlierVars, buildVars, runVars, pipeVars>>

\* The stderr loop ends: if !buf.is_empty() an Error is sent.
StderrEnds ==
    /\ readers.stderr = "reading"
    /\ pipe.err = 0
    /\ child.exited
    /\ readers' = [readers EXCEPT !.stderr = "done"]
    /\ events' = IF readers.buf > 0 THEN Append(events, ErrorEvent) ELSE events
    /\ UNCHANGED <<child, pipe>>
    /\ UNCHANGED <<earlierVars, buildVars, runVars, pipeVars>>

\* child.wait() returns and Done is sent.
WaitReturns ==
    /\ readers.wait = "waiting"
    /\ child.exited
    /\ readers' = [readers EXCEPT !.wait = "done"]
    /\ events' = Append(events, DoneEvent)
    /\ UNCHANGED <<child, pipe>>
    /\ UNCHANGED <<earlierVars, buildVars, runVars, pipeVars>>

NextStream ==
    \/ ChildWritesOut
    \/ ChildWritesErr
    \/ ChildExits
    \/ StdoutRead
    \/ StdoutEnds
    \/ StderrRead
    \/ StderrEnds
    \/ WaitReturns

SpecStream == InitStream /\ [][NextStream]_vars

-----------------------------------------------------------------------------
(* Properties of layout_graph, checked under SpecLayout.                   *)

Runs == DOMAIN layoutRuns

\* C1: two calls of layout_graph on the same graph with the same seed return
\* identical scenes (node order, ids, positions, counts, edges), whatever
\* order the hash map iterates in.
C1_LayoutDeterministic ==
    \A i \in Runs, j \in Runs :
        layoutRuns[i].seed = layoutRuns[j].seed
            => layoutRuns[i].scene = layoutRuns[j].scene

\* Two calls with the same seed whose maps iterated in different orders, on a
\* graph that has nodes.
C1_Witness ==
    \E i \in Runs, j \in Runs :
        /\ layoutRuns[i].seed = layoutRuns[j].seed
        /\ layoutRuns[i].iter # layoutRuns[j].iter
        /\ layoutRuns[i].scene.nodes # <<>>

SameButZ(a, b) ==
    /\ Len(a.nodes) = Len(b.nodes)
    /\ \A k \in DOMAIN a.nodes :
          /\ a.nodes[k].id = b.nodes[k].id
          /\ a.nodes[k].position[1] = b.nodes[k].position[1]
          /\ a.nodes[k].position[2] = b.nodes[k].position[2]
          /\ a.nodes[k].seen = b.nodes[k].seen
          /\ a.nodes[k].loss_probes = b.nodes[k].loss_probes
    /\ a.edges = b.edges

\* C5: for any two seeds the scenes of the same graph hold the same nodes in
\* the same order with the same id, x, y, seen and lossProbes, and the same
\* edges: only z may differ.
C5_SeedChangesOnlyZ ==
    \A i \in Runs, j \in Runs : SameButZ(layoutRuns[i].scene, layoutRuns[j].scene)

\* Two calls with different seeds in which some node did get a different z.
C5_Witness ==
    \E i \in Runs, j \in Runs :
        /\ layoutRuns[i].seed # layoutRuns[j].seed
        /\ \E k \in DOMAIN layoutRuns[i].scene.nodes :
              layoutRuns[i].scene.nodes[k].position[3]
                  # layoutRuns[j].scene.nodes[k].position[3]

\* Every id that appears in the node list or in an edge of g.
AllIds(g) ==
    NodeIds(g) \cup {g.edges[i].from : i \in DOMAIN g.edges}
               \cup {g.edges[i].to : i \in DOMAIN g.edges}

InDegreeOf(g, id) == Cardinality({i \in DOMAIN g.edges : g.edges[i].to = id})

\* C6: in-degree is computed for every id of the node list and of the edges
\* (an id only edges mention starts from zero), and whenever some such id has
\* in-degree 0 the start set is exactly the ids of in-degree 0, including ids
\* that occur only as the source of an edge.
C6_StartSetIsAllZeroInDegree ==
    \A i \in Runs :
        graph.nodes # <<>> =>
            /\ DOMAIN layoutRuns[i].indegree = AllIds(graph)
            /\ \A id \in AllIds(graph) : layoutRuns[i].indegree[id] = InDegreeOf(graph, id)
            /\ (\E id \in AllIds(graph) : InDegreeOf(graph, id) = 0)
                  => Range(layoutRuns[i].starts)
                        = {id \in AllIds(graph) : InDegreeOf(graph, id) = 0}

\* The ids within k edges of the set S.
RECURSIVE Within(_, _, _)
Within(S, edges, k) ==
    IF k = 0 THEN S
    ELSE LET R == Within(S, edges, k - 1)
         IN  R \cup {edges[i].to : i \in {j \in DOMAIN edges : edges[j].from \in R}}

\* The length of the shortest directed edge path from an id of S to id.
ShortestPath(S, edges, id) ==
    MinOf({k \in 0..Len(edges) : id \in Within(S, edges, k)})

\* C7: every id the traversal reaches gets as depth the length of the
\* shortest directed edge path from a start id (a start id gets 0), and that
\* depth is the x coordinate of its scene node.
C7_DepthIsShortestPath ==
    \A i \in Runs :
        LET r == layoutRuns[i]
        IN  /\ \A id \in DOMAIN r.depth :
                  r.depth[id] = ShortestPath(Range(r.starts), graph.edges, id)
            /\ \A k \in DOMAIN r.scene.nodes :
                  r.scene.nodes[k].id \in DOMAIN r.depth
                      => r.scene.nodes[k].position[1] = r.depth[r.scene.nodes[k].id]

\* A node of the scene sits at depth 1 although an edge also leads to it
\* from another id of depth 1: a longer path to it exists.
C7_Witness ==
    \E i \in Runs :
        LET r == layoutRuns[i]
        IN  \E e \in Range(graph.edges), k \in DOMAIN r.scene.nodes :
                /\ e.from # e.to
                /\ e.from \in DOMAIN r.depth /\ r.depth[e.from] = 1
                /\ r.scene.nodes[k].id = e.to
                /\ r.scene.nodes[k].position[1] = 1

EdgesMirrorGraph(sc, g) ==
    /\ Len(sc.edges) = Len(g.edges)
    /\ \A k \in DOMAIN g.edges :
          /\ sc.edges[k].from = g.edges[k].from
          /\ sc.edges[k].to = g.edges[k].to
          /\ sc.edges[k].seen = g.edges[k].seen
          /\ sc.edges[k].rtt_delta_ms_avg = g.edges[k].rtt_delta_ms_avg

\* C8 as stated: for every input graph the scene's edge list equals the
\* graph's edge list (length, order, from, to, seen, avgRttDeltaMs).
C8_Original ==
    \A i \in Runs : EdgesMirrorGraph(layoutRuns[i].scene, graph)

\* C8: for every input graph with at least one node the scene's edge list
\* equals the graph's edge list (length, order, from, to, seen,
\* avgRttDeltaMs), edges with endpoints absent from the node list included;
\* for a graph without nodes the scene has no edges.
C8_EdgesMirrorGraph ==
    \A i \in Runs :
        IF graph.nodes # <<>>
        THEN EdgesMirrorGraph(layoutRuns[i].scene, graph)
        ELSE layoutRuns[i].scene.edges = <<>>

\* A call on a graph with nodes and an edge neither end of which is a node.
C8_Witness ==
    \E i \in Runs :
        /\ graph.nodes # <<>>
        /\ \E e \in Range(graph.edges) :
              e.from \notin NodeIds(graph) /\ e.to \notin NodeIds(graph)
        /\ Len(layoutRuns[i].scene.edges) = MaxEdges

\* The ids a traversal from S reaches along the edges.
Reached(S, edges) == Within(S, edges, Len(edges))

\* C16: every node id that the traversal from the start set does not reach
\* gets depth exactly (maximum depth among reached ids) + 1, where the depth
\* of a reached id is the length of the shortest edge path to it from a start
\* id, and its scene node has that depth as x.
C16_UnreachedGetMaxDepthPlusOne ==
    \A i \in Runs :
        LET r == layoutRuns[i]
            reached == Reached(Range(r.starts), graph.edges)
        IN  \A k \in DOMAIN r.scene.nodes :
                r.scene.nodes[k].id \notin reached =>
                    /\ reached # {}
                    /\ r.scene.nodes[k].position[1]
                          = MaxOf({ShortestPath(Range(r.starts), graph.edges, id) :
                                      id \in reached}) + 1

\* A call that left a node unreached while it reached an id at depth 1: the
\* unreached node sits at depth 2.
C16_Witness ==
    \E i \in Runs :
        LET r == layoutRuns[i]
            reached == Reached(Range(r.starts), graph.edges)
        IN  \E k \in DOMAIN r.scene.nodes :
                /\ r.scene.nodes[k].id \notin reached
                /\ \E id \in reached : ShortestPath(Range(r.starts), graph.edges, id) = 1
                /\ r.scene.nodes[k].position[1] = 2

\* C17: when no id (of the node list or of an edge) has in-degree 0, the
\* start set is exactly the set of ids whose in-degree equals the minimum
\* in-degree over all ids, and each of them is assigned depth 0.
C17_FallbackStartsAreMinInDegree ==
    \A i \in Runs :
        LET r == layoutRuns[i]
            least == {id \in AllIds(graph) :
                        \A other \in AllIds(graph) :
                            InDegreeOf(graph, id) <= InDegreeOf(graph, other)}
        IN  (graph.nodes # <<>> /\ \A id \in AllIds(graph) : InDegreeOf(graph, id) > 0)
                => /\ Range(r.starts) = least
                   /\ \A id \in least : id \in DOMAIN r.depth /\ r.depth[id] = 0
                   /\ \A k \in DOMAIN r.scene.nodes :
                          r.scene.nodes[k].id \in least
                              => r.scene.nodes[k].position[1] = 0

\* A call on a graph in which every id has an edge into it and the in-degrees
\* differ: some id is a start and some id is not.
C17_Witness ==
    \E i \in Runs :
        /\ graph.nodes # <<>>
        /\ \A id \in AllIds(graph) : InDegreeOf(graph, id) > 0
        /\ \E id \in AllIds(graph) : id \notin Range(layoutRuns[i].starts)
        /\ \E k \in DOMAIN layoutRuns[i].scene.nodes :
              layoutRuns[i].scene.nodes[k].id \in Range(layoutRuns[i].starts)

\* The positions of the graph's node list, in the order a stable sort by id
\* puts them: by id, and by position among equal ids.
Before(nodes, a, b) ==
    \/ StrLt(nodes[a].id, nodes[b].id)
    \/ nodes[a].id = nodes[b].id /\ a < b

RankOf(nodes, a) == 1 + Cardinality({b \in DOMAIN nodes : Before(nodes, b, a)})

\* C18: for every graph with at least one node, the scene's node list
\* contains exactly one scene node per graph node, carrying the same id, seen
\* count and loss-probe count, in ascending id order (nodes of equal id in
\* their input order).
C18_SceneNodesMirrorGraphNodes ==
    \A i \in Runs :
        LET sc == layoutRuns[i].scene
        IN  graph.nodes # <<>> =>
                /\ Len(sc.nodes) = Len(graph.nodes)
                /\ \A a \in DOMAIN graph.nodes :
                      LET n == sc.nodes[RankOf(graph.nodes, a)]
                      IN  /\ n.id = graph.nodes[a].id
                          /\ n.seen = graph.nodes[a].seen
                          /\ n.loss_probes = graph.nodes[a].loss_probes
                /\ \A k \in 1..(Len(sc.nodes) - 1) :
                      StrLe(sc.nodes[k].id, sc.nodes[k + 1].id)

\* A call on a graph whose node list is not in id order: the scene lists the
\* second node first.
C18_Witness ==
    \E i \in Runs :
        /\ Len(graph.nodes) = MaxNodes
        /\ StrLt(graph.nodes[2].id, graph.nodes[1].id)
        /\ layoutRuns[i].scene.nodes[1].id = graph.nodes[2].id
        /\ layoutRuns[i].scene.nodes[1].seen # layoutRuns[i].scene.nodes[1].loss_probes

\* C20 as stated: for a fixed graph and node id, layout_graph run with two
\* different seeds assigns different z-jitter values to that node.
C20_Original ==
    \A i \in Runs, j \in Runs :
        layoutRuns[i].seed # layoutRuns[j].seed =>
            \A k \in DOMAIN layoutRuns[i].scene.nodes :
                layoutRuns[i].scene.nodes[k].position[3]
                    # layoutRuns[j].scene.nodes[k].position[3]

\* C20: for a fixed graph and node id, the 64-bit wrapping mix of (seed, id
\* bytes) yields different hash values for different seeds, and the z of the
\* node is the jitter made of that hash; two hashes that round to the same
\* f32 give the same z.
C20_SeedsGiveDifferentHashes ==
    \A i \in Runs, j \in Runs :
        layoutRuns[i].seed # layoutRuns[j].seed =>
            \A k \in DOMAIN layoutRuns[i].scene.nodes :
                LET id == layoutRuns[i].scene.nodes[k].id
                IN  /\ JitterHashTable[layoutRuns[i].seed, id]
                          # JitterHashTable[layoutRuns[j].seed, id]
                    /\ layoutRuns[i].scene.nodes[k].position[3]
                          = JitterTable[layoutRuns[i].seed, id]
                    /\ layoutRuns[j].scene.nodes[k].position[3]
                          = JitterTable[layoutRuns[j].seed, id]

\* Two calls with different seeds that gave some node the same z, from
\* different hashes.
C20_Witness ==
    \E i \in Runs, j \in Runs :
        /\ layoutRuns[i].seed # layoutRuns[j].seed
        /\ \E k \in DOMAIN layoutRuns[i].scene.nodes :
              /\ layoutRuns[i].scene.nodes[k].position[3]
                    = layoutRuns[j].scene.nodes[k].position[3]
              /\ JitterHashTable[layoutRuns[i].seed, layoutRuns[i].scene.nodes[k].id]
                    # JitterHashTable[layoutRuns[j].seed, layoutRuns[i].scene.nodes[k].id]

-----------------------------------------------------------------------------
(* Properties of the BVH, checked under SpecBvh.                           *)

\* C3: a query of the BVH returns a hit exactly when the exhaustive scan over
\* all spheres finds one within [t_min, t_max], and then with the same t, the
\* smallest over all spheres.
C3_BvhMatchesBruteForce ==
    query # <<>> =>
        LET q == query[1]
            brute == brute_hit(q.ray, spheres, q.t_min, q.t_max)
        IN  /\ (hitResult # <<>>) <=> (brute # <<>>)
            /\ hitResult # <<>> => hitResult[1].t = brute[1].t

\* What does hold of the same query: the BVH never invents a hit, and when the
\* exhaustive scan's nearest hit lies strictly inside the bounds the BVH
\* returns a hit with that t.
C3_InteriorHitsAgree ==
    query # <<>> =>
        LET q == query[1]
            brute == brute_hit(q.ray, spheres, q.t_min, q.t_max)
        IN  /\ hitResult # <<>> => brute # <<>> /\ brute[1].t <= hitResult[1].t
            /\ (brute # <<>> /\ q.t_min < brute[1].t /\ brute[1].t < q.t_max)
                  => hitResult # <<>> /\ hitResult[1].t = brute[1].t

\* The leaves of a tree of BvhNodes, from left to right.
RECURSIVE LeavesOf(_)
LeavesOf(node) ==
    IF node.left = <<>> THEN <<node>>
    ELSE LeavesOf(node.left[1]) \o LeavesOf(node.right[1])

\* C14: in every BVH built by Bvh::new, for any number of spheres, each leaf
\* node covers a contiguous index range of at most 4 primitives: a range
\* start..end within the index list, of length at most 4, and the ranges of
\* the leaves follow one another from 0 to the number of spheres; the index
\* list holds every sphere once.
C14_LeavesAreSmallRanges ==
    bvh # <<>> =>
        LET b == bvh[1]
            leaves == LeavesOf(b.root)
        IN  /\ Len(b.indices) = Len(spheres)
            /\ Range(b.indices) = 0..(Len(spheres) - 1)
            /\ \A k \in DOMAIN leaves :
                  /\ 0 <= leaves[k].start
                  /\ leaves[k].start <= leaves[k].end
                  /\ leaves[k].end <= Len(b.indices)
                  /\ leaves[k].end - leaves[k].start <= 4
            /\ leaves[1].start = 0
            /\ leaves[Len(leaves)].end = Len(b.indices)
            /\ \A k \in 1..(Len(leaves) - 1) : leaves[k + 1].start = leaves[k].end

\* A BVH whose build split twice: a leaf that starts past the middle of the
\* index list has another leaf before it in the same half.
C14_Witness ==
    /\ bvh # <<>>
    /\ Len(LeavesOf(bvh[1].root)) >= 3
    /\ \E k \in DOMAIN LeavesOf(bvh[1].root) :
          LeavesOf(bvh[1].root)[k].end - LeavesOf(bvh[1].root)[k].start = 4

\* The number of indices under a node: the lengths of its leaves' ranges.
RECURSIVE CoveredBy(_)
CoveredBy(node) ==
    IF node.left = <<>> THEN node.end - node.start
    ELSE CoveredBy(node.left[1]) + CoveredBy(node.right[1])

RECURSIVE InternalNodes(_)
InternalNodes(node) ==
    IF node.left = <<>> THEN {}
    ELSE {node} \cup InternalNodes(node.left[1]) \cup InternalNodes(node.right[1])

\* C30: after Bvh::new over n >= 1 spheres the index array is a
\* permutation of 0..n-1; the ranges of the leaves are non-empty, pairwise
\* disjoint and cover 0..n exactly, so every position of the index array
\* lies in exactly one leaf; and the children of an internal node over k
\* indices hold floor(k/2) and ceil(k/2) indices.
C30_LeavesPartitionTheIndices ==
    (bvh # <<>> /\ Len(spheres) >= 1) =>
        LET b == bvh[1]
            n == Len(spheres)
            leaves == LeavesOf(b.root)
        IN  /\ Len(b.indices) = n
            /\ \A i \in 0..(n - 1) :
                  Cardinality({p \in 1..n : b.indices[p] = i}) = 1
            /\ \A k \in DOMAIN leaves : leaves[k].start < leaves[k].end
            /\ \A p \in 0..(n - 1) :
                  Cardinality({k \in DOMAIN leaves :
                      leaves[k].start <= p /\ p < leaves[k].end}) = 1
            /\ \A k \in DOMAIN leaves :
                  0 <= leaves[k].start /\ leaves[k].end <= n
            /\ \A node \in InternalNodes(b.root) :
                  /\ CoveredBy(node.left[1]) = CoveredBy(node) \div 2
                  /\ CoveredBy(node.right[1]) =
                        CoveredBy(node) - CoveredBy(node) \div 2

\* A BVH over an odd number of spheres with an internal node below the
\* root that holds an odd number of indices too.
C30_Witness ==
    /\ bvh # <<>>
    /\ Len(spheres) % 2 = 1
    /\ \E node \in InternalNodes(bvh[1].root) :
          /\ node # bvh[1].root
          /\ CoveredBy(node) % 2 = 1
          /\ CoveredBy(node.right[1]) = CoveredBy(node.left[1]) + 1

-----------------------------------------------------------------------------
(* Properties of rendering, checked under SpecRender.                      *)

\* The entry of pixel (x, y) in the accumulation buffer.
EntryOf(x, y) == accum[y * settings.width + x + 1]

Pixels == (0..(settings.width - 1)) \X (0..(settings.height - 1))

\* What one pass adds to pixel (x, y): a function of the seed, the pixel, the
\* sample indices of the pass and the scene, and of nothing else.
PassGroup(x, y, p) ==
    PixelColor(context[1], settings, x, y, p.sample_offset, Max(p.samples, 1),
               BounceBudget(settings))

\* The sum of pixel (x, y) after the passes that are over and, where the
\* pass in progress has rendered the pixel, that pass.
ExpectedSum(x, y) ==
    [k \in 1..Len(call[1].passes) |-> PassGroup(x, y, call[1].passes[k])]
        \o (IF pass # <<>> /\ pass[1].rows[y].x > x
            THEN <<PassGroup(x, y, pass[1])>>
            ELSE <<>>)

\* C2: whatever the number of worker threads and the order in which the
\* workers take and finish rows, every entry of the accumulation buffer is
\* the sum that (seed, x, y, sample indices, scene) determine.
C2_AccumIndependentOfSchedule ==
    call # <<>> => \A px \in Pixels : EntryOf(px[1], px[2]) = ExpectedSum(px[1], px[2])

SomeTermOfKind(kind) ==
    \E i \in DOMAIN accum : \E g \in DOMAIN accum[i] : \E k \in DOMAIN accum[i][g] :
        \E t \in DOMAIN accum[i][g][k].radiance : accum[i][g][k].radiance[t].kind = kind

\* Two workers, the lower row finished before the upper one, the counter of
\* finished rows in use, two samples a pixel, rays that hit and rays that miss.
C2_Witness ==
    /\ PassDone
    /\ call[1].threads = MaxThreads
    /\ pass[1].order = <<1, 0>>
    /\ pass[1].counter = settings.height
    /\ settings.spp = MaxSpp
    /\ SomeTermOfKind("emission")
    /\ SomeTermOfKind("background")

RECURSIVE Flatten(_)
Flatten(groups) ==
    IF groups = <<>> THEN <<>> ELSE Head(groups) \o Flatten(Tail(groups))

\* The samples requested: settings.spp, at least 1.
Requested == Max(settings.spp, 1)

\* What one pass of all the samples adds to pixel (x, y).
OnePass(x, y) ==
    PixelColor(context[1], settings, x, y, 0, Requested, BounceBudget(settings))

\* The sample indices of pass k: sample_offset .. sample_offset + samples - 1.
PassIndices(p) == p.sample_offset..(p.sample_offset + Max(p.samples, 1) - 1)

\* C4: when a render call has returned, one pass or progressive with any
\* chunk size, the samples added to each pixel are those of the one pass, in
\* the same order: the index sets of the passes are pairwise disjoint, their
\* union is 0..N-1, and each sample was added once.
C4_ProgressiveEqualsOnePass ==
    (call # <<>> /\ call[1].returned) =>
        /\ \A px \in Pixels : Flatten(EntryOf(px[1], px[2])) = OnePass(px[1], px[2])
        /\ \A px \in Pixels :
              LET flat == Flatten(EntryOf(px[1], px[2]))
              IN  [k \in DOMAIN flat |-> flat[k].sample] = [k \in 1..Requested |-> k - 1]
        /\ \A j, k \in DOMAIN call[1].passes :
              j # k => PassIndices(call[1].passes[j]) \cap PassIndices(call[1].passes[k]) = {}
        /\ UNION {PassIndices(call[1].passes[k]) : k \in DOMAIN call[1].passes}
              = 0..(Requested - 1)
        /\ call[1].kind = "render_scene" =>
              \A px \in Pixels : EntryOf(px[1], px[2]) = <<OnePass(px[1], px[2])>>

\* A progressive render of two samples in two chunks has returned, with rays
\* that hit.
C4_Witness ==
    /\ call # <<>>
    /\ call[1].returned
    /\ call[1].kind = "render_scene_progressive"
    /\ Len(call[1].passes) = 2
    /\ settings.spp = 2
    /\ Len(callbacks) = 2
    /\ SomeTermOfKind("emission")

NodeIdsOf(sc) == {sc.nodes[i].id : i \in DOMAIN sc.nodes}

Resolves(sc, edge) == edge.from \in NodeIdsOf(sc) /\ edge.to \in NodeIdsOf(sc)

ResolvedOnly(sc) ==
    [sc EXCEPT !.edges = SelectSeq(sc.edges, LAMBDA e : Resolves(sc, e))]

\* C9: the spheres of a render context are those of the scene without its
\* edges from or to an id that is no node: such an edge adds nothing, and the
\* sphere of every node, in order, and the chains of the other edges are there.
C9_DanglingEdgesEmitNothing ==
    context # <<>> =>
        LET sp == context[1].bvh.spheres
        IN  /\ sp = build_spheres(ResolvedOnly(scene))
            /\ Len(sp) >= Len(scene.nodes)
            /\ \A i \in DOMAIN scene.nodes : sp[i] = NodeSphere(scene.nodes[i])
            /\ Len(sp) - Len(scene.nodes)
                  = Len(AllEdgeSpheres(scene.nodes, ResolvedOnly(scene).edges))

\* A scene with an edge from an unknown id, an edge to an unknown id and an
\* edge that resolves has been built, with the chain of the edge that
\* resolves, and rendered to the end.
C9_Witness ==
    /\ context # <<>>
    /\ call[1].returned
    /\ \E e \in Range(scene.edges) : e.from \notin NodeIdsOf(scene)
    /\ \E e \in Range(scene.edges) : e.to \notin NodeIdsOf(scene)
    /\ \E e \in Range(scene.edges) : Resolves(scene, e) /\ e.from # e.to
    /\ Len(context[1].bvh.spheres) > Len(scene.nodes)

\* C10: in a render of a scene without nodes, for every spp and every bounce
\* count, the BVH is empty, every query of it returns None, every sample
\* added to a pixel is one background term at full throughput, and the render
\* can always take its next step until it has returned.
C10_EmptySceneRendersBackground ==
    (call # <<>> /\ scene.nodes = <<>>) =>
        /\ context[1].bvh.spheres = <<>>
        /\ context[1].bvh.indices = <<>>
        /\ \A ray \in Rays, t_min \in TMins : BvhHit(context[1].bvh, ray, t_min, Infinity) = <<>>
        /\ \A i \in DOMAIN accum : \A g \in DOMAIN accum[i] : \A k \in DOMAIN accum[i][g] :
              LET radiance == accum[i][g][k].radiance
              IN  /\ Len(radiance) = 1
                  /\ radiance[1].kind = "background"
                  /\ radiance[1].throughput = <<>>
        /\ ~call[1].returned => ENABLED NextRender

\* A render of the empty scene with spp 0 and bounces 0 has returned, with a
\* sample added to every pixel.
C10_Witness ==
    /\ call # <<>>
    /\ call[1].returned
    /\ scene.nodes = <<>>
    /\ settings.spp = 0
    /\ settings.bounces = 0
    /\ \A i \in DOMAIN accum : accum[i] # <<>>
    /\ image # <<>>

\* The rows of the pass in progress.
RowsOf(p) == DOMAIN p.rows

\* C13: during a render pass each row of the accumulation buffer is written
\* by exactly one worker task and a task writes only entries of the row it
\* owns, so no two workers ever write the same buffer entry and every row is
\* processed exactly once per pass: an entry has one group of samples per
\* finished pass and one more exactly when the task of its row has passed its
\* column; a row is taken once and finished once.
C13_RowsHaveOneWriter ==
    call # <<>> =>
        IF pass = <<>>
        THEN \A idx \in DOMAIN accum : Len(accum[idx]) = Len(call[1].passes)
        ELSE LET p == pass[1]
             IN  /\ \A y \in RowsOf(p), x \in 0..(settings.width - 1) :
                       Len(accum[y * settings.width + x + 1])
                           = Len(call[1].passes) + (IF x < p.rows[y].x THEN 1 ELSE 0)
                 /\ \A y \in RowsOf(p) :
                       /\ p.rows[y].state = "pending" => p.rows[y].x = 0
                       /\ p.rows[y].state = "done" => p.rows[y].x = settings.width
                       /\ Cardinality({k \in DOMAIN p.order : p.order[k] = y})
                             = (IF p.rows[y].state = "done" THEN 1 ELSE 0)
                 /\ Cardinality(Running(p)) <= Workers(call[1].threads)

\* Two workers are each part-way through a row of their own, in a pass after
\* the first.
C13_Witness ==
    /\ pass # <<>>
    /\ Len(call[1].passes) >= 1
    /\ Cardinality(Running(pass[1])) = MaxThreads
    /\ \A y \in Running(pass[1]) :
          pass[1].rows[y].x > 0 /\ pass[1].rows[y].x < settings.width

\* The counts the callbacks reported, in order.
Reported == [k \in DOMAIN callbacks |-> callbacks[k].done]

\* The count before the k-th callback.
ReportedBefore(k) == IF k = 1 THEN 0 ELSE callbacks[k - 1].done

Progressive == call # <<>> /\ call[1].kind = "render_scene_progressive"

\* C19 as stated: the reported counts increase by min(chunk size, remaining
\* samples), the chunk size being the one the caller gave.
C19_Original ==
    Progressive =>
        \A k \in DOMAIN callbacks :
            callbacks[k].done - ReportedBefore(k)
                = Min(call[1].every, Max(settings.spp, 1) - ReportedBefore(k))

\* The safety part of C19: one callback per finished chunk, each with the
\* cumulative count; a chunk of size 0 counts as 1.
C19_CallbackCounts ==
    Progressive =>
        /\ Len(callbacks) = Len(call[1].passes)
        /\ \A k \in DOMAIN callbacks :
              /\ callbacks[k].done > ReportedBefore(k)
              /\ callbacks[k].done - ReportedBefore(k)
                    = Min(Max(call[1].every, 1), Max(settings.spp, 1) - ReportedBefore(k))
              /\ callbacks[k].done = call[1].passes[k].sample_offset + call[1].passes[k].samples
        /\ call[1].returned =>
              /\ callbacks # <<>>
              /\ callbacks[Len(callbacks)].done = Max(settings.spp, 1)

\* The steps a row still takes: to be taken, its pixels, to be finished.
RowWork(row) ==
    IF row.state = "pending" THEN settings.width + 2
    ELSE IF row.state = "running" THEN settings.width - row.x + 1
    ELSE 0

\* The steps the pass in progress still takes, the callback after it
\* included.
PassWork == SumSeq([k \in 1..settings.height |-> RowWork(pass[1].rows[k - 1])]) + 1

\* A bound on the steps a progressive call still takes: a whole pass for
\* every sample not yet done, less what the pass in progress has done.
WorkLeft ==
    (call[1].target - call[1].done) * (settings.height * (settings.width + 2) + 2)
        - (IF pass = <<>> THEN 0
           ELSE settings.height * (settings.width + 2) + 1 - PassWork)

\* Some step of the call can be taken: a worker can take a row, render the
\* next pixel of its row (the guard of RenderPixel) or finish its row, or the
\* caller can go on after the pass.
CanStep ==
    \/ ENABLED TakeRow
    \/ pass # <<>> /\ \E y \in Running(pass[1]) : pass[1].rows[y].x < settings.width
    \/ ENABLED FinishRow
    \/ ENABLED OnPass

\* C19: render_scene_progressive invokes the callback exactly once after
\* each chunk with the cumulative sample count; the reported counts strictly
\* increase by min(max(chunk size, 1), remaining samples), the last reported
\* count equals the requested samples-per-pixel (at least 1), and the loop
\* terminates for every chunk size including 0: until the call returns a
\* step can be taken, and every step lowers WorkLeft, which is never negative.
C19_ProgressiveCallbacks ==
    /\ [](/\ C19_CallbackCounts
          /\ Progressive => WorkLeft >= 0
          /\ (Progressive /\ ~call[1].returned) => CanStep)
    /\ [][Progressive => WorkLeft' < WorkLeft]_vars

\* A call with chunk size 0 has returned after more than one callback.
C19_Witness ==
    /\ Progressive
    /\ call[1].every = 0
    /\ call[1].returned
    /\ Len(callbacks) = MaxSpp

-----------------------------------------------------------------------------
(* Properties of the frame buffers, checked under SpecFrame.               *)

\* C11: for every RenderSettings, render_scene returns an image of exactly
\* width * height pixels and the accumulation buffer holds exactly one
\* entry per pixel: the call never panics, its buffer has width * height
\* entries, and the image it returns has width * height pixels.
C11_FrameIsExact ==
    /\ frame.pc # "panicked"
    /\ frame.accum_len # <<>> =>
          frame.accum_len = FramePixels(dims.width, dims.height)
    /\ frame.pc = "returned" =>
          frame.image = FramePixels(dims.width, dims.height)

\* What the code does guarantee: a call with a width above zero and a
\* pixel count below 2^32 returns, and returns width * height pixels.
FrameInRange ==
    /\ dims.width > 0
    /\ ~OverflowsU32(FramePixels(dims.width, dims.height))

C11_InRangeFramesAreExact == FrameInRange => C11_FrameIsExact

C11_PanicsOutOfRange ==
    (~FrameInRange /\ ~ENABLED NextFrame) => frame.pc = "panicked"

-----------------------------------------------------------------------------
(* Properties of write_png, checked under SpecImageOut.                    *)

RECURSIVE LastGood(_)
LastGood(done) ==
    IF done = <<>> THEN Absent
    ELSE IF done[Len(done)].ok THEN Encoded(done[Len(done)].image)
    ELSE LastGood(SubSeq(done, 1, Len(done) - 1))

Renamed == writer # <<>> /\ writer[1].pc = "dirsync"

\* C12: whenever write_png fails, at saving the temporary file or at
\* renaming it, the destination holds the complete content of the last
\* successful write, or is absent if there was none; between a rename and
\* the Ok that follows it holds the complete new image; and the
\* destination changes only by the rename of a fully written temporary
\* file onto it.
C12_DestinationIsLastGoodWrite ==
    /\ [](files[DestPath] = IF Renamed THEN Encoded(writer[1].image)
                            ELSE LastGood(writes))
    /\ [][files'[DestPath] # files[DestPath] =>
            /\ writer # <<>>
            /\ writer[1].pc = "rename"
            /\ files[writer[1].tmp_path] = Encoded(writer[1].image)
            /\ files'[DestPath] = files[writer[1].tmp_path]]_vars

\* A write failed after an earlier one succeeded, it left a half-written
\* temporary file behind, and the destination holds the earlier image.
C12_Witness ==
    /\ writer = <<>>
    /\ Len(writes) >= 2
    /\ ~writes[Len(writes)].ok
    /\ \E k \in 1..(Len(writes) - 1) :
         /\ writes[k].ok
         /\ writes[k].image # writes[Len(writes)].image
         /\ files[DestPath] = Encoded(writes[k].image)
    /\ \E p \in Range(TempNames) : files[p] = FileOf(<<writes[Len(writes)].image>>)

-----------------------------------------------------------------------------
(* Properties of run_traces_with_runner, checked under SpecTrace.          *)

\* The job of place k (from 1) of a list ordered by target index and then
\* by repeat index: what the thread of that target got from its run of
\* that repeat.
ExpectedJob(k) ==
    LET t == (k - 1) \div traceArgs.repeat
        rep == (k - 1) % traceArgs.repeat
    IN  [target |-> traceArgs.targets[t + 1],
         repeat |-> rep,
         result |-> ResultOf(traceArgs.targets[t + 1], rep,
                             workers[t].raws[rep + 1])]

\* C15: the list run_traces_with_runner returns holds one result per
\* target and repeat, all repeats of targets[0] in increasing repeat, then
\* all repeats of targets[1], and so on, whatever the concurrency and the
\* order in which the jobs complete and arrive.
C15_ResultsInTargetThenRepeatOrder ==
    collector.pc = "returned" =>
        /\ Len(collector.output) = TotalJobs(traceArgs)
        /\ \A k \in 1..TotalJobs(traceArgs) :
             collector.output[k] = ExpectedJob(k)

\* Two targets with two repeats each ran two at a time, the jobs arrived
\* out of slot order, and the call returned.
C15_Witness ==
    /\ collector.pc = "returned"
    /\ Len(traceArgs.targets) = MaxTargets
    /\ traceArgs.repeat = MaxRepeat
    /\ traceArgs.concurrency = MaxConcurrency
    /\ traceArgs.targets[1] = traceArgs.targets[2]
    /\ workers[0].raws # workers[1].raws
    /\ \E i \in 1..(Len(collector.arrivals) - 1) :
         collector.arrivals[i] > collector.arrivals[i + 1]

-----------------------------------------------------------------------------
(* Properties of the traced paths, checked under SpecRender.  A path is    *)
(* the sequence of the terms added to its colour, one per BVH query.       *)

\* The paths of all samples added to the buffer so far.
PathsTraced ==
    UNION {UNION {{accum[i][g][k].radiance : k \in DOMAIN accum[i][g]} :
                    g \in DOMAIN accum[i]} : i \in DOMAIN accum}

\* A path within a budget: at most budget queries; every query but the
\* last one hit; a miss adds the background under the throughput of the
\* hits before it and is the last term; a path of hits only has used the
\* whole budget.
PathWithin(path, budget) ==
    /\ Len(path) <= budget
    /\ \A j \in 1..(Len(path) - 1) : path[j].kind = "emission"
    /\ \A j \in DOMAIN path : Len(path[j].throughput) = j - 1
    /\ \A j \in DOMAIN path : path[j].kind \in {"emission", "background"}
    /\ (path = <<>> \/ path[Len(path)].kind = "emission") => Len(path) = budget

\* C22 as stated: a path performs at most settings.bounces queries, the
\* first miss adds the background and ends the path, and a path of hits
\* stops after the budget with no background term.
C22_Original == \A path \in PathsTraced : PathWithin(path, settings.bounces)

\* C22: a path performs at most max(settings.bounces, 1) queries; the
\* first miss adds throughput x background and ends the path, so that no
\* query follows a miss; and a path whose queries all hit stops after
\* max(settings.bounces, 1) queries with no background term.
C22_PathsStayWithinClampedBudget ==
    \A path \in PathsTraced : PathWithin(path, Max(settings.bounces, 1))

\* With a budget of MaxBounces there is a path whose queries all hit, a
\* path that hit and then missed, and a path that missed at once.
C22_Witness ==
    /\ settings.bounces = MaxBounces
    /\ \E path \in PathsTraced :
          /\ Len(path) = MaxBounces
          /\ \A j \in DOMAIN path : path[j].kind = "emission"
    /\ \E path \in PathsTraced :
          /\ Len(path) = MaxBounces
          /\ path[Len(path)].kind = "background"
    /\ \E path \in PathsTraced :
          /\ Len(path) = 1
          /\ path[1].kind = "background"

-----------------------------------------------------------------------------
(* Properties of the accumulation across passes, checked under SpecRender. *)

IsPrefix(a, b) == Len(a) <= Len(b) /\ SubSeq(b, 1, Len(a)) = a

NonNegative(v) == \A i \in DOMAIN v : v[i] >= 0

\* The factors of a term that the model keeps as numbers, the emission and
\* the albedos of the throughput, are not negative.
TermNonNegative(term) ==
    /\ NonNegative(term.emission)
    /\ \A j \in DOMAIN term.throughput : NonNegative(term.throughput[j])

-----------------------------------------------------------------------------
(* Properties of the link chains, checked under SpecRender.                *)

\* The edges of the scene whose endpoints both resolve to nodes that lie
\* apart.
ChainEdges ==
    {k \in DOMAIN scene.edges :
        LET from == positions_get(scene.nodes, scene.edges[k].from)
            to   == positions_get(scene.nodes, scene.edges[k].to)
        IN  /\ from # <<>>
            /\ to # <<>>
            /\ VLength(VSub(to[1], from[1])) > NearZero}

ChainOf(k) == EdgeSpheres(scene.nodes, scene.edges[k])

\* C25: in the spheres a render call has built, every edge whose endpoints
\* resolve to known nodes and whose segment is longer than the near-zero
\* threshold has a chain of at least 2 sample spheres.
C25_ChainsHaveTwoSpheres ==
    call # <<>> =>
        /\ \A k \in ChainEdges : Len(ChainOf(k)) >= 2
        /\ Len(context[1].bvh.spheres) >=
              Len(scene.nodes) + 2 * Cardinality(ChainEdges)

\* What the code does guarantee: such an edge has a chain of at least one
\* sphere, strictly between its endpoints.
C25_ChainsHaveOneSphere ==
    call # <<>> =>
        /\ \A k \in ChainEdges : Len(ChainOf(k)) >= 1
        /\ Len(context[1].bvh.spheres) >=
              Len(scene.nodes) + Cardinality(ChainEdges)

-----------------------------------------------------------------------------
(* Properties of build_graph, checked under SpecBuild.                     *)

\* The runs, among the first n of the trace file, in which an id occurs.
RunsWith(id, n) ==
    {r \in 1..n : \E h \in DOMAIN traceFile.runs[r].hops :
                     hop_id(traceFile.runs[r].hops[h]) = id}

\* C21: build_graph sets each node's seen count to the number of runs in
\* which its id occurs at least once, hops without an ip counting under
\* the id "unknown"; the graph has a node for exactly the ids that occur;
\* and no seen count exceeds the number of runs.  The counts kept while
\* the runs are read satisfy the same for the runs read so far.
C21_SeenCountsRuns ==
    /\ \A id \in DOMAIN nodeStats :
          /\ nodeStats[id].seen = Cardinality(RunsWith(id, runsDone))
          /\ nodeStats[id].seen <= runsDone
    /\ graphOut # <<>> =>
          /\ {graphOut[1].nodes[i].id : i \in DOMAIN graphOut[1].nodes} =
                {id \in Ids \cup {Unknown} :
                    RunsWith(id, Len(traceFile.runs)) # {}}
          /\ \A i \in DOMAIN graphOut[1].nodes :
                /\ graphOut[1].nodes[i].seen =
                      Cardinality(RunsWith(graphOut[1].nodes[i].id,
                                           Len(traceFile.runs)))
                /\ graphOut[1].nodes[i].seen <= Len(traceFile.runs)

\* A graph built from two runs: one run has two hops without an ip, the
\* other has the same ip at both hops and no hop without one; the node
\* "unknown" and the node of that ip are each seen once.
C21_Witness ==
    /\ graphOut # <<>>
    /\ Len(traceFile.runs) = 2
    /\ \E r \in 1..2 :
          /\ Len(traceFile.runs[r].hops) = 2
          /\ \A h \in 1..2 : traceFile.runs[r].hops[h].ip = <<>>
    /\ \E r \in 1..2 :
          /\ Len(traceFile.runs[r].hops) = 2
          /\ \A h \in 1..2 : traceFile.runs[r].hops[h].ip = <<IdA>>
    /\ \E i, j \in DOMAIN graphOut[1].nodes :
          /\ graphOut[1].nodes[i].id = Unknown
          /\ graphOut[1].nodes[i].seen = 1
          /\ graphOut[1].nodes[j].id = IdA
          /\ graphOut[1].nodes[j].seen = 1

-----------------------------------------------------------------------------
(* Properties of run_render, checked under SpecRunRender.                  *)

ProgressiveRun == renderArgs.progressive_every > 0

\* The chunks of the buffer follow one another from sample 0 up to done.
ChunksAreConsecutive ==
    /\ \A k \in DOMAIN renderRun.sums :
          renderRun.sums[k].sample_offset =
              SumSeq([j \in 1..(k - 1) |-> renderRun.sums[j].samples])
    /\ renderRun.done =
          SumSeq([j \in DOMAIN renderRun.sums |-> renderRun.sums[j].samples])

\* C23: in a progressive render driven by run_render a failed image write
\* is the error result of the call, which is Ok when no write failed; and
\* the failure does not reset or discard the buffer: no step shortens or
\* changes what the buffer holds, every pass after the failure adds its
\* chunk to it, and the call returns with all max(spp, 1) samples added.
C23_WriteFailureIsReportedAndKeepsSums ==
    /\ [](ProgressiveRun =>
            /\ ChunksAreConsecutive
            /\ renderRun.pc = "returned" =>
                  /\ renderRun.done = Max(renderArgs.spp, 1)
                  /\ (renderRun.write_error # <<>>) =
                        (renderRun.result[1] = "Err")
                  /\ renderRun.write_error # <<>> =>
                        renderRun.result = <<"Err", renderRun.write_error[1]>>)
    /\ [][ProgressiveRun =>
            /\ IsPrefix(renderRun.sums, renderRun.sums')
            /\ renderRun.done <= renderRun.done'
            /\ renderRun.write_error # <<>> =>
                  renderRun.write_error' = renderRun.write_error]_vars

\* A progressive render whose first write failed has returned: two more
\* passes were added after the failure, their writes skipped, and the
\* result is the error.
C23_Witness ==
    /\ ProgressiveRun
    /\ renderRun.pc = "returned"
    /\ renderRun.write_error = <<1>>
    /\ renderRun.skipped = 2
    /\ Len(renderRun.sums) = 3
    /\ renderRun.result[1] = "Err"
    /\ outImage = <<>>

-----------------------------------------------------------------------------
(* Properties of the run pipeline, checked under SpecPipeline.             *)

\* The steps come up in the order trace, build, layout, render.
StepsInOrder ==
    /\ \A i \in 1..(Len(pipeline.executed) - 1) :
          pipeline.executed[i] < pipeline.executed[i + 1]
    /\ \A k \in Range(pipeline.executed) \cup Range(pipeline.skipped) :
          k < pipeline.pc

\* C28: with --resume and without --force the steps execute in the order
\* trace, build, layout, render; once a step has been executed no later
\* step is skipped; and in a run that returned Ok no retained artifact
\* derives from an older version of an upstream artifact than the one in
\* the directory.
C28_NoStaleDownstream ==
    (runFlags.resume /\ ~runFlags.force) =>
        /\ StepsInOrder
        /\ \A k \in Range(pipeline.executed), j \in Range(pipeline.skipped) :
              j < k
        /\ pipeline.result = <<"Ok">> =>
              \A k \in 2..Len(StepNames) :
                 artifacts[k][1].from = artifacts[k - 1][1].version

\* What the code does guarantee: the steps come up in order, each is
\* executed exactly when its own artifact is missing, and a run that
\* returned Ok leaves all four artifacts in the directory.
C28_StepsFollowOwnArtifact ==
    (runFlags.resume /\ ~runFlags.force) =>
        /\ StepsInOrder
        /\ \A k \in Range(pipeline.executed) :
              artifacts[k][1].version = NewVersion
        /\ \A k \in Range(pipeline.skipped) : artifacts[k] = OldArtifact
        /\ pipeline.result = <<"Ok">> => \A k \in Steps : artifacts[k] # <<>>

-----------------------------------------------------------------------------
(* Properties of the traceroute stream, checked under SpecStream.          *)

\* C29: on the channel of a spawned stream Done comes after every
\* HopUpdate: no HopUpdate is sent, and so none received, after Done.
C29_DoneAfterEveryHopUpdate ==
    \A i \in DOMAIN events, j \in DOMAIN events :
        (i < j /\ events[i].kind = "Done") => events[j].kind # "HopUpdate"

\* What the code does guarantee: at most one Done, sent after the child
\* exited, and at most one Error, sent at the end of stderr.
C29_OneDoneAfterExit ==
    /\ Cardinality({i \in DOMAIN events : events[i].kind = "Done"}) <= 1
    /\ (\E i \in DOMAIN events : events[i].kind = "Done") =>
          child.exited /\ readers.wait = "done"
    /\ Cardinality({i \in DOMAIN events : events[i].kind = "Error"}) <= 1
    /\ (\E i \in DOMAIN events : events[i].kind = "Error") =>
          readers.stderr = "done"


(***************************************************************************)
(* Properties of the semaphore of run_traces_with_runner, checked under    *)
(* SpecTrace and SpecTraceFair.                                            *)
(***************************************************************************)

\* The threads inside runner.run.
InRun == {w \in DOMAIN workers : workers[w].pc = "run"}

\* C26: in every interleaving of the per-target threads, the number of
\* runner.run calls in progress is at most max(concurrency, 1), and the
\* permit counter of the semaphore never exceeds that bound (it is the
\* number of calls in progress).
C26_RunsInProgressStayWithinPermits ==
    /\ semaphore <= Permits(traceArgs.concurrency)
    /\ Cardinality(InRun) <= Permits(traceArgs.concurrency)
    /\ Cardinality(InRun) = semaphore

\* With concurrency 0 one thread is inside runner.run, holding the only
\* permit, and the other has found none free and waits.
C26_Witness ==
    /\ traceArgs.concurrency = 0
    /\ semaphore = 1
    /\ Cardinality(InRun) = 1
    /\ Waiting # {}

\* The entries of the returned list for the pair (target index t, rep).
EntriesOf(t, rep) ==
    {k \in 1 .. Len(collector.output) :
        /\ k = BaseIndex(t, traceArgs.repeat) + rep + 1
        /\ collector.output[k].target = traceArgs.targets[t + 1]
        /\ collector.output[k].repeat = rep}

\* The returned list has targets.len() * repeat results, one for each
\* (target, repeat) pair, Ok where the run gave parsable output and Err
\* otherwise, and every thread went through all its repeats.
OneResultPerPair ==
    /\ Len(collector.output) = Len(traceArgs.targets) * traceArgs.repeat
    /\ \A t \in DOMAIN workers :
         /\ Len(workers[t].raws) = traceArgs.repeat
         /\ \A rep \in 0 .. traceArgs.repeat - 1 :
              /\ Cardinality(EntriesOf(t, rep)) = 1
              /\ \A k \in EntriesOf(t, rep) :
                   collector.output[k].result.ok
                       = (workers[t].raws[rep + 1] = "ok")

\* Thread t is blocked in cvar.wait.
IsWaiting(t) == t \in DOMAIN workers /\ workers[t].pc = "waiting"

\* C27: for non-empty targets and repeat >= 1, when every runner call
\* returns, run_traces_with_runner terminates (no thread waits forever on
\* the semaphore) and returns exactly targets.len() * repeat results, one
\* for each (target, repeat) pair; a failed or unparsable run gives an Err
\* result for its pair and does not prevent the later repeats of its
\* target.
C27_TracesTerminateWithOneResultPerPair ==
    /\ <>(collector.pc = "returned")
    /\ \A t \in ThreadIds : IsWaiting(t) ~> ~IsWaiting(t)
    /\ []((/\ collector.pc = "returned"
           /\ traceArgs.targets # <<>>
           /\ traceArgs.repeat >= 1) => OneResultPerPair)

\* A call with two targets and one permit has returned: a thread had to
\* wait for the permit, and a run that failed was followed by a later
\* repeat of the same target.
C27_Witness ==
    /\ collector.pc = "returned"
    /\ Len(traceArgs.targets) = 2
    /\ traceArgs.repeat = 2
    /\ \E t \in DOMAIN workers : workers[t].waited
    /\ \E t \in DOMAIN workers :
         /\ workers[t].raws = <<"failed", "unparsable">>
         /\ ~collector.output[BaseIndex(t, 2) + 1].result.ok
         /\ ~collector.output[BaseIndex(t, 2) + 2].result.ok
    /\ \E k \in 1 .. Len(collector.output) : collector.output[k].result.ok

====
